---- MODULE Spec2Model ----
(***************************************************************************)
(* Feature-definition compilation (packages/back-end/src/services/         *)
(* features.ts): getFeatureDefinitions loads an organization's features    *)
(* and compiles, for one environment, the mapping from feature id to its   *)
(* SDK definition.                                                         *)
(*                                                                         *)
(* Strings are sequences of one-character strings, so that parseFloat and  *)
(* JSON.parse are computed on the text.  Numbers are exact decimals held   *)
(* as integers in units of 10^-FracDigits.  A JavaScript exception is the  *)
(* value Thrown: try/catch tests for it, and where the code has no catch   *)
(* it aborts the enclosing call.                                           *)
(***************************************************************************)
EXTENDS Integers, Sequences, FiniteSets, TLC

VARIABLES store, envArg, pc, features, idx, defs, db, call, log, now, uniq

\* the state of one call of getFeatureDefinitions
compiler == <<store, envArg, pc, features, idx, defs>>

\* the stored features, the service call in progress, the collaborators it
\* has invoked, the clock and the count of generated ids
services == <<db, call, log, now, uniq>>

vars == <<store, envArg, pc, features, idx, defs, db, call, log, now, uniq>>

----------------------------------------------------------------------------
(* Bounds of the model *)

\* decimal digits kept after the point by the number representation
FracDigits == 5
\* features in a stored collection
MaxFeatures == 2
\* rules in one environment's rule sequence
MaxRules == 3
\* variations of one experiment rule
MaxVariations == 2
\* service calls in one run
MaxCalls == 2
\* writes to storage during concurrent invocations
MaxWrites == 1

----------------------------------------------------------------------------
(* Numbers *)

RECURSIVE Pow10(_)
Pow10(k) == IF k <= 0 THEN 1 ELSE 10 * Pow10(k - 1)

\* the integer that stands for 1
Unit == Pow10(FracDigits)

\* the number m * 10^-d (d <= FracDigits)
Dec(m, d) == m * Pow10(FracDigits - d)

\* Math.round(num * 1000) / 1000 uses this factor
RoundFactor == 1000

\* roundVariationWeight with the rounding replaced by truncation
TruncateWeight(num) ==
    LET k == Unit \div RoundFactor
    IN  (num \div k) * k

\* Math.round(num * 1000) / 1000, where Math.round(x) is floor(x + 0.5)
roundVariationWeight(num) ==
    LET k == Unit \div RoundFactor
    IN  ((2 * num + k) \div (2 * k)) * k

----------------------------------------------------------------------------
(* Values of the payload: null, booleans, numbers, strings, arrays, objects *)

Val(t, b, n, s, items) == [t |-> t, b |-> b, n |-> n, s |-> s, items |-> items]

Null == Val("null", FALSE, 0, <<>>, <<>>)
Bool(b) == Val("bool", b, 0, <<>>, <<>>)
Num(n) == Val("num", FALSE, n, <<>>, <<>>)
Str(s) == Val("str", FALSE, 0, s, <<>>)
Arr(items) == Val("arr", FALSE, 0, <<>>, items)
Obj(members) == Val("obj", FALSE, 0, <<>>, members)
Member(k, v) == Val("member", FALSE, 0, k, <<v>>)

\* an exception in flight (SyntaxError of JSON.parse)
Thrown == Val("throw", FALSE, 0, <<>>, <<>>)

----------------------------------------------------------------------------
(* Text *)

Digits == {"0", "1", "2", "3", "4", "5", "6", "7", "8", "9"}

DigitVal(c) ==
    CASE c = "0" -> 0 [] c = "1" -> 1 [] c = "2" -> 2 [] c = "3" -> 3
      [] c = "4" -> 4 [] c = "5" -> 5 [] c = "6" -> 6 [] c = "7" -> 7
      [] c = "8" -> 8 [] c = "9" -> 9

\* first position at or after i that holds no white space
RECURSIVE SkipWs(_, _)
SkipWs(s, i) == IF i <= Len(s) /\ s[i] \in {" ", "\n"} THEN SkipWs(s, i + 1) ELSE i

\* first position at or after i that holds no digit
RECURSIVE DigitRun(_, _)
DigitRun(s, i) == IF i <= Len(s) /\ s[i] \in Digits THEN DigitRun(s, i + 1) ELSE i

\* the integer written by the digits s[i..j-1]
RECURSIVE IntOf(_, _, _)
IntOf(s, i, j) == IF i >= j THEN 0 ELSE IntOf(s, i, j - 1) * 10 + DigitVal(s[j - 1])

\* the fraction written by the digits s[i..j-1] after a decimal point, in units
RECURSIVE FracOf(_, _, _, _)
FracOf(s, i, j, place) ==
    IF i >= j \/ place > FracDigits THEN 0
    ELSE Dec(DigitVal(s[i]), place) + FracOf(s, i + 1, j, place + 1)

\* does s hold the word w at position i
HasWord(s, i, w) ==
    /\ i + Len(w) - 1 <= Len(s)
    /\ \A k \in 1..Len(w) : s[i + k - 1] = w[k]

\* position of the first c at or after i, or 0
RECURSIVE Find(_, _, _)
Find(s, i, c) ==
    IF i > Len(s) THEN 0 ELSE IF s[i] = c THEN i ELSE Find(s, i + 1, c)

----------------------------------------------------------------------------
(* parseFloat: white space, a sign, digits, a point and digits; the longest  *)
(* such prefix is the number, and NaN when it holds no digit.  Exponents    *)
(* and Infinity are not modelled (no stored text of the model has them).    *)

NaN == [nan |-> TRUE, n |-> 0]

\* the digits s[b..c-1], then (when d > c) a point and the digits s[c+1..d-1]
Magnitude(s, b, c, d) == IntOf(s, b, c) * Unit + FracOf(s, c + 1, d, 1)

Signed(neg, mag) == IF neg THEN 0 - mag ELSE mag

\* the end of the fraction that may follow the integer digits ending before c
FractionEnd(s, c) == IF c <= Len(s) /\ s[c] = "." THEN DigitRun(s, c + 1) ELSE c

FloatAt(s, neg, b, c, d) ==
    IF c = b /\ d <= c + 1
    THEN NaN
    ELSE [nan |-> FALSE, n |-> Signed(neg, Magnitude(s, b, c, d))]

FloatDigits(s, neg, b) == FloatAt(s, neg, b, DigitRun(s, b), FractionEnd(s, DigitRun(s, b)))

FloatSign(s, a) ==
    FloatDigits(s, a <= Len(s) /\ s[a] = "-",
                IF a <= Len(s) /\ s[a] \in {"-", "+"} THEN a + 1 ELSE a)

parseFloat(s) == FloatSign(s, SkipWs(s, 1))

\* x || 0 for a number x: NaN (and 0) give 0
Or0(x) == IF x.nan THEN 0 ELSE x.n

\* parseFloat(s) || 0
parseFloatOr0(s) == Or0(parseFloat(s))

----------------------------------------------------------------------------
(* JSON.parse: literals, numbers without exponent, strings without escapes, *)
(* arrays and objects, white space between tokens.                          *)

Fail == [ok |-> FALSE, v |-> Null, next |-> 0]
Ok(v, next) == [ok |-> TRUE, v |-> v, next |-> next]

\* a JSON number: integer digits are needed, a leading 0 stands alone, and a
\* point needs digits after it
NumberAt(s, neg, b, c, d) ==
    IF c = b \/ d = c + 1
    THEN Fail
    ELSE Ok(Num(Signed(neg, Magnitude(s, b, c, d))), d)

IntegerEnd(s, b) == IF b <= Len(s) /\ s[b] = "0" THEN b + 1 ELSE DigitRun(s, b)

NumberDigits(s, neg, b) ==
    NumberAt(s, neg, b, IntegerEnd(s, b), FractionEnd(s, IntegerEnd(s, b)))

ParseNumber(s, i) == NumberDigits(s, s[i] = "-", IF s[i] = "-" THEN i + 1 ELSE i)

\* the string that opens at i and closes at k (0: it never closes)
StringTo(s, i, k) == IF k = 0 THEN Fail ELSE Ok(Str(SubSeq(s, i + 1, k - 1)), k + 1)

ParseString(s, i) == StringTo(s, i, Find(s, i + 1, "\""))

\* obj[k] = v: a repeated key keeps its place and takes the later value
RECURSIVE SetMember(_, _, _)
SetMember(members, k, v) ==
    IF members = <<>> THEN <<Member(k, v)>>
    ELSE IF Head(members).s = k THEN <<Member(k, v)>> \o Tail(members)
    ELSE <<Head(members)>> \o SetMember(Tail(members), k, v)

\* a scalar (literal, string or number) at position j, which holds a character
ParseScalar(s, j) ==
    IF HasWord(s, j, <<"n", "u", "l", "l">>) THEN Ok(Null, j + 4)
    ELSE IF HasWord(s, j, <<"t", "r", "u", "e">>) THEN Ok(Bool(TRUE), j + 4)
    ELSE IF HasWord(s, j, <<"f", "a", "l", "s", "e">>) THEN Ok(Bool(FALSE), j + 5)
    ELSE IF s[j] = "\"" THEN ParseString(s, j)
    ELSE IF s[j] = "-" \/ s[j] \in Digits THEN ParseNumber(s, j)
    ELSE Fail

\* an array or object being read: its items so far and, in an object, the key
\* whose value is awaited
Frame(kind, items, key) == [kind |-> kind, items |-> items, key |-> key]

\* the frame with the value v added
Filled(frame, v) ==
    IF frame.kind = "arr"
    THEN Frame("arr", Append(frame.items, v), <<>>)
    ELSE Frame("obj", SetMember(frame.items, frame.key, v), <<>>)

\* the value a closed frame stands for
Closed(frame) == IF frame.kind = "arr" THEN Arr(frame.items) ELSE Obj(frame.items)

\* The parser, from position i with the open arrays and objects on a stack
\* (innermost first).  mode "value": a value is awaited; "key": a member
\* key is awaited; "after": the value v has just ended before position i.
RECURSIVE ParseValue(_, _, _, _, _)
ParseValue(s, i, mode, v, stack) ==
    LET j == SkipWs(s, i)
    IN  IF mode = "after" /\ stack = <<>> THEN Ok(v, i)
        ELSE IF j > Len(s) THEN Fail
        ELSE IF mode = "value"
        THEN IF s[j] \in {"[", "{"}
             THEN LET kind == IF s[j] = "[" THEN "arr" ELSE "obj"
                      close == IF s[j] = "[" THEN "]" ELSE "}"
                      k == SkipWs(s, j + 1)
                  IN  IF k <= Len(s) /\ s[k] = close
                      THEN ParseValue(s, k + 1, "after", Closed(Frame(kind, <<>>, <<>>)),
                                      stack)
                      ELSE ParseValue(s, k, IF kind = "arr" THEN "value" ELSE "key", Null,
                                      <<Frame(kind, <<>>, <<>>)>> \o stack)
             ELSE LET e == ParseScalar(s, j)
                  IN  IF e.ok THEN ParseValue(s, e.next, "after", e.v, stack) ELSE Fail
        ELSE IF mode = "key"
        THEN LET key == IF s[j] = "\"" THEN ParseString(s, j) ELSE Fail
                 c == SkipWs(s, key.next)
             IN  IF key.ok /\ c <= Len(s) /\ s[c] = ":"
                 THEN ParseValue(s, c + 1, "value", Null,
                                 <<Frame("obj", Head(stack).items, key.v.s)>> \o Tail(stack))
                 ELSE Fail
        ELSE LET frame == Filled(Head(stack), v)
             IN  IF s[j] = ","
                 THEN ParseValue(s, j + 1, IF frame.kind = "arr" THEN "value" ELSE "key",
                                 Null, <<frame>> \o Tail(stack))
                 ELSE IF s[j] = (IF frame.kind = "arr" THEN "]" ELSE "}")
                 THEN ParseValue(s, j + 1, "after", Closed(frame), Tail(stack))
                 ELSE Fail

\* the text must end after the value
Completed(s, r) == IF r.ok /\ SkipWs(s, r.next) > Len(s) THEN r.v ELSE Thrown

\* JSON.parse(s): the value, or the SyntaxError it throws
JSONparse(s) == Completed(s, ParseValue(s, 1, "value", Null, <<>>))

----------------------------------------------------------------------------
(* JSON.stringify(value, null, 2) and the conversion of a number to text     *)

DigitText == <<"0", "1", "2", "3", "4", "5", "6", "7", "8", "9">>

\* the decimal digits of the natural number n
RECURSIVE NatText(_)
NatText(n) ==
    IF n < 10 THEN <<DigitText[n + 1]>>
    ELSE NatText(n \div 10) \o <<DigitText[(n % 10) + 1]>>

\* the digits of the fraction frac (in units) from the given place on, without
\* trailing zeros
RECURSIVE FracText(_, _)
FracText(frac, place) ==
    IF frac = 0 \/ place > FracDigits THEN <<>>
    ELSE <<DigitText[(frac \div Dec(1, place)) + 1]>>
             \o FracText(frac % Dec(1, place), place + 1)

MagnitudeText(mag) ==
    NatText(mag \div Unit)
        \o (IF mag % Unit = 0 THEN <<>> ELSE <<".">> \o FracText(mag % Unit, 1))

\* String(n) of a finite number
NumberText(n) == IF n < 0 THEN <<"-">> \o MagnitudeText(0 - n) ELSE MagnitudeText(n)

\* x + "" for the result x of parseFloat
FloatText(x) == IF x.nan THEN <<"N", "a", "N">> ELSE NumberText(x.n)

\* n spaces
Spaces(n) == [i \in 1..n |-> " "]

Quoted(s) == <<"\"">> \o s \o <<"\"">>

\* the lines of items, each headed by the indentation and closed by a comma
\* except the last
RECURSIVE JoinLines(_, _)
JoinLines(lines, ind) ==
    IF lines = <<>> THEN <<>>
    ELSE <<"\n">> \o Spaces(ind) \o Head(lines)
            \o (IF Len(lines) > 1 THEN <<",">> ELSE <<>>)
            \o JoinLines(Tail(lines), ind)

\* JSON.stringify(v, null, 2) at indentation ind; a member is written as
\* its quoted key, a colon, a space and its value
RECURSIVE Stringify(_, _)
Stringify(v, ind) ==
    IF v.t = "null" THEN <<"n", "u", "l", "l">>
    ELSE IF v.t = "bool"
    THEN IF v.b THEN <<"t", "r", "u", "e">> ELSE <<"f", "a", "l", "s", "e">>
    ELSE IF v.t = "num" THEN NumberText(v.n)
    ELSE IF v.t = "str" THEN Quoted(v.s)
    ELSE IF v.t = "member" THEN Quoted(v.s) \o <<":", " ">> \o Stringify(v.items[1], ind)
    ELSE IF v.items = <<>> THEN (IF v.t = "arr" THEN <<"[", "]">> ELSE <<"{", "}">>)
    ELSE <<IF v.t = "arr" THEN "[" ELSE "{">>
            \o JoinLines([k \in 1..Len(v.items) |-> Stringify(v.items[k], ind + 2)],
                         ind + 2)
            \o <<"\n">> \o Spaces(ind)
            \o <<IF v.t = "arr" THEN "]" ELSE "}">>

----------------------------------------------------------------------------
(* Feature keys: /^[a-zA-Z0-9_.:|-]+$/ and toLowerCase                        *)

LowerCase == <<"a", "b", "c", "d", "e", "f", "g", "h", "i", "j", "k", "l", "m",
               "n", "o", "p", "q", "r", "s", "t", "u", "v", "w", "x", "y", "z">>
UpperCase == <<"A", "B", "C", "D", "E", "F", "G", "H", "I", "J", "K", "L", "M",
               "N", "O", "P", "Q", "R", "S", "T", "U", "V", "W", "X", "Y", "Z">>

Range(q) == {q[i] : i \in 1..Len(q)}

\* the characters of the class [a-zA-Z0-9_.:|-]
KeyChars == Range(LowerCase) \cup Range(UpperCase) \cup Digits \cup {"_", ".", ":", "|", "-"}

\* id.match(/^[a-zA-Z0-9_.:|-]+$/)
MatchesKeyPattern(id) == Len(id) > 0 /\ \A i \in 1..Len(id) : id[i] \in KeyChars

LowerChar(c) ==
    IF c \in Range(UpperCase)
    THEN LowerCase[CHOOSE i \in 1..Len(UpperCase) : UpperCase[i] = c]
    ELSE c

\* the key as it was supplied
KeyAsSupplied(id) == id

\* id.toLowerCase()
toLowerCase(id) == [i \in 1..Len(id) |-> LowerChar(id[i])]

----------------------------------------------------------------------------
(* Stored text used by the model *)

s_empty == <<>>
s_false == <<"f", "a", "l", "s", "e">>
s_true == <<"t", "r", "u", "e">>
s_False == <<"F", "a", "l", "s", "e">>
s_no == <<"n", "o">>
s_0 == <<"0">>
s_abc == <<"a", "b", "c">>
s_1p5 == <<"1", ".", "5">>
s_neg2 == <<"-", "2">>
s_12abc == <<"1", "2", "a", "b", "c">>
s_0p1 == <<"0", ".", "1">>
s_0p6 == <<"0", ".", "6">>
s_null == <<"n", "u", "l", "l">>
s_emptyObject == <<"{", "}">>
s_badJson == <<"{", "b", "a", "d">>
s_object == <<"{", "\"", "a", "\"", ":", " ", "1", "}">>
s_array == <<"[", "1", ",", "t", "r", "u", "e", "]">>
s_quoted == <<"\"", "n", "o", "\"">>
s_id == <<"i", "d">>
s_n1 == <<"n", "1">>
s_key == <<"k">>
s_fr1 == <<"f", "r", "_", "1">>

----------------------------------------------------------------------------
(* getJSONValue and the compilation of one rule and one feature *)

\* try { return result } catch (e) { return fallback }
TryCatch(result, fallback) == IF result = Thrown THEN fallback ELSE result

\* getJSONValue without its try/catch: the parse error escapes
getJSONValueNoCatch(type, value) ==
    IF type = "json" THEN JSONparse(value)
    ELSE IF type = "number" THEN Num(parseFloatOr0(value))
    ELSE IF type = "string" THEN Str(value)
    ELSE IF type = "boolean" THEN Bool(value # s_false)
    ELSE Null

\* getJSONValue with booleans read the common way: only "true" is true
getJSONValueOnlyTrue(type, value) ==
    IF type = "json" THEN TryCatch(JSONparse(value), Null)
    ELSE IF type = "number" THEN Num(parseFloatOr0(value))
    ELSE IF type = "string" THEN Str(value)
    ELSE IF type = "boolean" THEN Bool(value = s_true)
    ELSE Null

getJSONValue(type, value) ==
    IF type = "json" THEN TryCatch(JSONparse(value), Null)
    ELSE IF type = "number" THEN Num(parseFloatOr0(value))
    ELSE IF type = "string" THEN Str(value)
    ELSE IF type = "boolean" THEN Bool(value # s_false)
    ELSE Null

\* a field that is present and not the empty string (JavaScript truthiness)
Truthy(r, f) == f \in DOMAIN r /\ r[f] # s_empty

\* the record with no field
NoFields == <<>>

\* lines 59-65: the parsed condition, or no field
ConditionField(parsed) == "condition" :> parsed

\* RuleCondition with a condition that fails to parse stored as null
RuleConditionNullOnError(r) ==
    IF Truthy(r, "condition") /\ r.condition # s_emptyObject
    THEN ConditionField(TryCatch(JSONparse(r.condition), Null))
    ELSE NoFields

RuleCondition(r) ==
    IF Truthy(r, "condition") /\ r.condition # s_emptyObject
    THEN IF JSONparse(r.condition) = Thrown
         THEN NoFields
         ELSE ConditionField(JSONparse(r.condition))
    ELSE NoFields

\* the clamp of line 78 without its upper bound
ClampWeightBelow(w) == IF w < 0 THEN 0 ELSE w

\* line 78: w < 0 ? 0 : w > 1 ? 1 : w
ClampWeight(w) == IF w < 0 THEN 0 ELSE IF w > Unit THEN Unit ELSE w

\* the coverage passed through without the clamp
UnclampedCoverage(c) == c

\* line 99: coverage > 1 ? 1 : coverage < 0 ? 0 : coverage
ClampCoverage(c) == IF c > Unit THEN Unit ELSE IF c < 0 THEN 0 ELSE c

\* an experiment's coverage clamped as a rollout's is
ClampedExperimentCoverage(c) == ClampCoverage(c)

\* line 74: rule.coverage = r.coverage
ExperimentCoverage(c) == c

\* RuleNamespace without the test of the enabled flag
RuleNamespaceWhenNamed(r) ==
    IF "namespace" \in DOMAIN r /\ r.namespace.name # s_empty
    THEN "namespace" :> << r.namespace.name,
                           parseFloatOr0(r.namespace.range[1]),
                           parseFloatOr0(r.namespace.range[2]) >>
    ELSE NoFields

\* lines 87-95
RuleNamespace(r) ==
    IF "namespace" \in DOMAIN r /\ r.namespace.enabled /\ r.namespace.name # s_empty
    THEN "namespace" :> << r.namespace.name,
                           parseFloatOr0(r.namespace.range[1]),
                           parseFloatOr0(r.namespace.range[2]) >>
    ELSE NoFields

\* lines 67-104: the fields that depend on the rule's type
RuleByType(r, valueType) ==
    IF r.type = "force"
    THEN "force" :> getJSONValue(valueType, r.value)
    ELSE IF r.type = "experiment"
    THEN [variations |-> [i \in 1..Len(r.values) |->
                             getJSONValue(valueType, r.values[i].value)],
          coverage |-> ExperimentCoverage(r.coverage),
          weights |-> [i \in 1..Len(r.values) |->
                             roundVariationWeight(ClampWeight(r.values[i].weight))]]
         @@ (IF Truthy(r, "trackingKey") THEN "key" :> r.trackingKey ELSE NoFields)
         @@ (IF Truthy(r, "hashAttribute")
             THEN "hashAttribute" :> r.hashAttribute ELSE NoFields)
         @@ RuleNamespace(r)
    ELSE IF r.type = "rollout"
    THEN [force |-> getJSONValue(valueType, r.value),
          coverage |-> ClampCoverage(r.coverage)]
         @@ (IF Truthy(r, "hashAttribute")
             THEN "hashAttribute" :> r.hashAttribute ELSE NoFields)
    ELSE NoFields

\* the map callback starting from a copy of the stored rule's id
CompileRuleKeepingId(r, valueType) ==
    RuleCondition(r) @@ RuleByType(r, valueType)
        @@ (IF "id" \in DOMAIN r THEN "id" :> r.id ELSE NoFields)

\* lines 57-105: the map callback
CompileRule(r, valueType) == RuleCondition(r) @@ RuleByType(r, valueType)

\* the rule types the compiler knows
RuleTypes == {"force", "experiment", "rollout"}

\* CompileRules with the rules of unknown type dropped from the result
CompileKnownRules(settings, valueType) ==
    IF "rules" \in DOMAIN settings
    THEN LET enabled == SelectSeq(settings.rules,
                                  LAMBDA r : r.enabled /\ r.type \in RuleTypes)
         IN  [i \in 1..Len(enabled) |-> CompileRule(enabled[i], valueType)]
    ELSE <<>>

\* CompileRules without the filter on enabled
CompileAllRules(settings, valueType) ==
    IF "rules" \in DOMAIN settings
    THEN [i \in 1..Len(settings.rules) |-> CompileRule(settings.rules[i], valueType)]
    ELSE <<>>

\* lines 55-106: settings.rules?.filter((r) => r.enabled)?.map(...) ?? []
CompileRules(settings, valueType) ==
    IF "rules" \in DOMAIN settings
    THEN LET enabled == SelectSeq(settings.rules, LAMBDA r : r.enabled)
         IN  [i \in 1..Len(enabled) |-> CompileRule(enabled[i], valueType)]
    ELSE <<>>

\* the definition with an empty rules field left in place
KeepEmptyRules(def) == def

\* lines 108-110: delete an empty rules field
WithoutEmptyRules(def) ==
    IF Len(def.rules) = 0 THEN [defaultValue |-> def.defaultValue] ELSE def

\* lines 52-110: the definition of an included feature
FeatureDefinition(feature, settings) ==
    WithoutEmptyRules(
        [defaultValue |-> getJSONValue(feature.valueType, feature.defaultValue),
         rules |-> CompileRules(settings, feature.valueType)])

\* an exception reached the forEach callback: a value outside any try threw
RuleThrew(rule) ==
    \/ "condition" \in DOMAIN rule /\ rule.condition = Thrown
    \/ "force" \in DOMAIN rule /\ rule.force = Thrown
    \/ "variations" \in DOMAIN rule
          /\ \E i \in 1..Len(rule.variations) : rule.variations[i] = Thrown

DefinitionThrew(def) ==
    \/ def.defaultValue = Thrown
    \/ "rules" \in DOMAIN def /\ \E i \in 1..Len(def.rules) : RuleThrew(def.rules[i])

----------------------------------------------------------------------------
(* The stored documents the model draws from *)

Environments == {"production", "dev"}

\* getFeatureDefinitions called without an environment
NoEnvironment == "(none)"

FeatureIds == <<"show-banner", "dark-mode", "beta", "checkout">>

\* sequences over S of length 0..n
RECURSIVE SeqsUpTo(_, _)
SeqsUpTo(S, n) ==
    IF n = 0 THEN {<<>>}
    ELSE LET shorter == SeqsUpTo(S, n - 1)
         IN  shorter \cup {Append(q, x) : q \in {r \in shorter : Len(r) = n - 1}, x \in S}

Variation(value, weight) == [value |-> value, weight |-> weight]

ForceRule(enabled, value) == [type |-> "force", enabled |-> enabled, value |-> value]
RolloutRule(enabled, value, coverage) ==
    [type |-> "rollout", enabled |-> enabled, value |-> value, coverage |-> coverage]
ExperimentRule(enabled, values, coverage) ==
    [type |-> "experiment", enabled |-> enabled, values |-> values, coverage |-> coverage]
\* a stored rule whose type is none of the three
OtherRule(enabled, value) == [type |-> "other", enabled |-> enabled, value |-> value]

With(r, field, value) == (field :> value) @@ r

\* r with an optional text field absent, empty, or set
OptionalText(r, field, texts) == {r} \cup {With(r, field, x) : x \in texts}

Feature(id, valueType, defaultValue, archived) ==
    [id |-> id, valueType |-> valueType, defaultValue |-> defaultValue,
     archived |-> archived]

Settings(enabled, rules) == [enabled |-> enabled, rules |-> rules]

\* the feature with its settings for one environment set
InEnvironment(f, env, settings) ==
    LET old == IF "environmentSettings" \in DOMAIN f THEN f.environmentSettings ELSE <<>>
    IN  With(f, "environmentSettings", (env :> settings) @@ old)

\* Rules of each type, enabled and disabled, for the assembly of rule lists
ListRules ==
    { ForceRule(TRUE, s_true), ForceRule(FALSE, s_false),
      RolloutRule(TRUE, s_false, Dec(5, 1)),
      ExperimentRule(TRUE, <<Variation(s_true, Dec(5, 1))>>, Unit),
      OtherRule(TRUE, s_true) }

RuleLists == SeqsUpTo(ListRules, MaxRules)

\* Settings of the requested environment: disabled or enabled, any rule list
\* or no rules field
ListSettings ==
    {Settings(e, rules) : e \in BOOLEAN, rules \in RuleLists}
        \cup {[enabled |-> e] : e \in BOOLEAN}

\* Features that differ in archived flag, environment entries and rule lists
ListFeatures(id) ==
    LET base == {Feature(id, "boolean", s_true, a) : a \in BOOLEAN}
        few == {Settings(TRUE, <<>>), Settings(FALSE, <<ForceRule(TRUE, s_true)>>)}
    IN  base \cup {With(f, "environmentSettings", <<>>) : f \in base}
             \cup {InEnvironment(f, "production", s) : f \in base, s \in ListSettings}
             \cup {InEnvironment(f, "dev", Settings(TRUE, <<ForceRule(TRUE, s_false)>>)) :
                      f \in base \cup {InEnvironment(g, "production", s) :
                                          g \in base, s \in few}}

\* A feature stored beside the one that varies
Companion(id, archived) ==
    InEnvironment(Feature(id, "number", s_1p5, archived), "production",
                  Settings(TRUE, <<ForceRule(TRUE, s_neg2)>>))

StoredText ==
    { s_empty, s_false, s_true, s_False, s_no, s_0, s_abc, s_1p5, s_neg2, s_12abc,
      s_null, s_emptyObject, s_badJson, s_object, s_array, s_quoted }

ValueTypes == {"boolean", "number", "string", "json", "other"}

Conditions == {s_empty, s_emptyObject, s_badJson, s_object, s_abc, s_null}

Coverages == {0 - Dec(5, 1), 0, Dec(25, 2), Unit, Dec(15, 1)}

Weights ==
    {0 - Dec(2, 1), Dec(5, 4), Dec(33335, 5), Dec(5, 1), Dec(6667, 4), Unit, Dec(123456, 5)}

Variations ==
    {Variation(s_true, w) : w \in Weights} \cup {Variation(s_false, Dec(5, 1))}

Namespaces ==
    { [enabled |-> TRUE, name |-> s_n1, range |-> <<s_0p1, s_0p6>>],
      [enabled |-> FALSE, name |-> s_n1, range |-> <<s_0p1, s_0p6>>],
      [enabled |-> TRUE, name |-> s_empty, range |-> <<s_0p1, s_0p6>>],
      [enabled |-> TRUE, name |-> s_n1, range |-> <<s_abc, s_empty>>] }

\* Typed text for forced values
TypedValues ==
    { <<"boolean", s_false>>, <<"boolean", s_no>>, <<"number", s_abc>>,
      <<"json", s_badJson>>, <<"json", s_object>>, <<"string", s_1p5>> }

\* Single enabled rules in full variety, each with the value type it is compiled under
ForceDetails(valueType, value) ==
    {<<valueType, r>> : r \in OptionalText(ForceRule(TRUE, value), "condition", Conditions)}

OtherDetails ==
    {<<"boolean", r>> : r \in OptionalText(OtherRule(TRUE, s_true), "condition", Conditions)}

RolloutDetails(valueType, value) ==
    {<<valueType, h>> :
        h \in UNION { OptionalText(r, "hashAttribute", {s_empty, s_id}) :
                 r \in UNION { OptionalText(RolloutRule(TRUE, value, c),
                                            "condition", {s_badJson}) : c \in Coverages } } }

WeightDetails ==
    {<<"boolean", ExperimentRule(TRUE, vs, c)>> :
        vs \in SeqsUpTo(Variations, MaxVariations),
        c \in {0 - Dec(5, 1), Dec(5, 1), Dec(15, 1)}}

FieldDetails ==
    LET basic == ExperimentRule(TRUE, <<Variation(s_abc, Dec(5, 1)),
                                        Variation(s_1p5, Dec(5, 1))>>, Unit)
    IN  {<<"number", n>> :
            n \in UNION { {k} \cup {With(k, "namespace", ns) : ns \in Namespaces} :
                     k \in UNION { OptionalText(h, "trackingKey", {s_empty, s_key}) :
                              h \in OptionalText(basic, "hashAttribute",
                                                 {s_empty, s_id}) } } }

\* Stored rules that carry the id given to them at creation
IdDetails ==
    {<<"boolean", With(r, "id", s_fr1)>> :
        r \in { ForceRule(TRUE, s_true), RolloutRule(TRUE, s_true, Dec(5, 1)),
                OtherRule(TRUE, s_true),
                With(ExperimentRule(TRUE, <<Variation(s_true, Unit)>>, Unit),
                     "trackingKey", s_empty) }}

DetailRules ==
    UNION {ForceDetails(tv[1], tv[2]) : tv \in TypedValues}
        \cup OtherDetails
        \cup IdDetails
        \cup RolloutDetails("boolean", s_false) \cup RolloutDetails("json", s_badJson)
        \cup WeightDetails
        \cup FieldDetails

DetailFeatures(id) ==
    { InEnvironment(Feature(id, tr[1], s_true, FALSE), "production",
                    Settings(TRUE, <<tr[2]>>)) : tr \in DetailRules }

\* Features without rules, every value type with every default text
DefaultFeatures(id) ==
    { InEnvironment(Feature(id, vt, text, FALSE), "production", Settings(TRUE, <<>>)) :
          vt \in ValueTypes, text \in StoredText }

\* n further features with the ids FeatureIds[2], FeatureIds[3], ...; every
\* second one is archived
Companions(n) == [i \in 1..n |-> Companion(FeatureIds[i + 1], i % 2 = 0)]

\* The stored collections: ids are unique within the organization
Collections ==
    {<<>>}
    \cup { <<f>> \o Companions(n) : f \in ListFeatures(FeatureIds[1]),
                                   n \in 0..(MaxFeatures - 1) }
    \cup { <<f>> : f \in DetailFeatures(FeatureIds[1]) \cup DefaultFeatures(FeatureIds[1]) }

----------------------------------------------------------------------------
(* getFeatureDefinitions(organization, environment = "production", project) *)

\* line 38: the default of the environment parameter
environment == IF envArg = NoEnvironment THEN "production" ELSE envArg

\* no service call has been made
Idle == [op |-> "none", pc |-> "idle", n |-> 0]

NoServiceCall ==
    /\ db = <<>>
    /\ call = Idle
    /\ log = <<>>
    /\ now = 0
    /\ uniq = 0

Init ==
    /\ store \in Collections
    /\ envArg \in Environments \cup {NoEnvironment}
    /\ pc = "call"
    /\ features = <<>>
    /\ idx = 1
    /\ defs = <<>>
    /\ NoServiceCall

\* line 41: await getAllFeatures(organization, project)
LoadFeatures ==
    /\ pc = "call"
    /\ features' = store
    /\ idx' = 1
    /\ defs' = <<>>
    /\ pc' = "forEach"
    /\ UNCHANGED <<store, envArg>>
    /\ UNCHANGED services

\* line 45: feature.environmentSettings?.[environment], None when undefined
None == [undefined |-> TRUE]

SettingsOf(feature, env) ==
    IF "environmentSettings" \in DOMAIN feature
          /\ env \in DOMAIN feature.environmentSettings
    THEN feature.environmentSettings[env]
    ELSE None

\* the skip test without the archived flag
SkippedUnlessArchived(feature, env) ==
    LET settings == SettingsOf(feature, env)
    IN  settings = None \/ ~settings.enabled

\* line 48: !settings || !settings.enabled || feature.archived
Skipped(feature, env) ==
    LET settings == SettingsOf(feature, env)
    IN  settings = None \/ ~settings.enabled \/ feature.archived

\* lines 52-110: defs[feature.id] = def, unless computing def threw
SetDefinition(id, def) ==
    IF DefinitionThrew(def)
    THEN /\ defs' = defs
         /\ pc' = "threw"
    ELSE /\ defs' = (id :> def) @@ defs
         /\ pc' = pc

\* the callback reading the document at the same position of storage
CompileFeatureFromStorage ==
    /\ pc = "forEach"
    /\ idx <= Len(features)
    /\ LET feature == IF idx <= Len(store) THEN store[idx] ELSE features[idx]
       IN  IF Skipped(feature, environment)
           THEN /\ defs' = defs
                /\ pc' = pc
           ELSE SetDefinition(feature.id,
                              FeatureDefinition(feature, SettingsOf(feature, environment)))
    /\ idx' = idx + 1
    /\ UNCHANGED <<store, envArg, features>>
    /\ UNCHANGED services

\* lines 44-111: one call of the forEach callback
CompileFeature ==
    /\ pc = "forEach"
    /\ idx <= Len(features)
    /\ IF Skipped(features[idx], environment)
       THEN /\ defs' = defs
            /\ pc' = pc
       ELSE SetDefinition(features[idx].id,
                          FeatureDefinition(features[idx],
                                            SettingsOf(features[idx], environment)))
    /\ idx' = idx + 1
    /\ UNCHANGED <<store, envArg, features>>
    /\ UNCHANGED services

\* line 113: return defs
Return ==
    /\ pc = "forEach"
    /\ idx > Len(features)
    /\ pc' = "returned"
    /\ UNCHANGED <<store, envArg, features, idx, defs>>
    /\ UNCHANGED services

Next == LoadFeatures \/ CompileFeature \/ Return

Spec == Init /\ [][Next]_vars

----------------------------------------------------------------------------
(* The feature services: getEnabledEnvironments, addIdsToRules,              *)
(* featureUpdated, parseDefaultValue, createFeatureService and               *)
(* updateFeatureService.  Organization, owner, project and value type are   *)
(* opaque texts with "" as the empty one; keys and default values are       *)
(* sequences of characters.  A field whose value is undefined is an absent  *)
(* field.                                                                   *)

\* a text field that is present and not ""
Present(r, f) == f \in DOMAIN r /\ r[f] # ""

\* r.f || ""
OrEmpty(r, f) == IF f \in DOMAIN r THEN r[f] ELSE ""

\* the part of r on the fields of S
Only(r, S) == [f \in DOMAIN r \cap S |-> r[f]]

\* the order of the keys of an environment mapping
EnvOrder == <<"production", "dev">>

\* Object.keys of an environment mapping
EnvKeys(settings) == SelectSeq(EnvOrder, LAMBDA e : e \in DOMAIN settings)

\* feature.environmentSettings ?? {}
SettingsOrNone(feature) ==
    IF "environmentSettings" \in DOMAIN feature THEN feature.environmentSettings ELSE <<>>

\* getEnabledEnvironments without the filter on enabled
AllEnvironments(feature) == EnvKeys(SettingsOrNone(feature))

\* lines 116-120
getEnabledEnvironments(feature) ==
    SelectSeq(EnvKeys(SettingsOrNone(feature)),
              LAMBDA e : "enabled" \in DOMAIN feature.environmentSettings[e]
                            /\ feature.environmentSettings[e].enabled)

\* lines 122-124: uniqid("fr_"), the n-th id the process generates
generateRuleId(n) == <<"f", "r", "_">> \o NatText(n)

RulesOf(env) == IF "rules" \in DOMAIN env THEN env.rules ELSE <<>>

\* line 136: !r.id
NeedsId(r) == ~Truthy(r, "id")

NeedingId(rules) == Len(SelectSeq(rules, NeedsId))

\* the ids generated for the environments before the i-th key
RECURSIVE GeneratedBefore(_, _, _)
GeneratedBefore(settings, keys, i) ==
    IF i <= 1 THEN 0
    ELSE GeneratedBefore(settings, keys, i - 1) + NeedingId(RulesOf(settings[keys[i - 1]]))

\* the position of env among the keys
KeyIndex(keys, env) == CHOOSE i \in 1..Len(keys) : keys[i] = env

\* lines 133-135
WithTrackingKey(r, featureId) ==
    IF r.type = "experiment" /\ ~Truthy(r, "trackingKey")
    THEN With(r, "trackingKey", featureId)
    ELSE r

\* an id generated for every rule
WithFreshId(r, n) == With(r, "id", generateRuleId(n + 1))

\* lines 136-138, n ids having been generated before
WithId(r, n) == IF NeedsId(r) THEN With(r, "id", generateRuleId(n + 1)) ELSE r

\* lines 132-139 for the rules of one environment
IdentifiedRules(rules, featureId, n) ==
    [k \in 1..Len(rules) |->
        WithId(WithTrackingKey(rules[k], featureId), n + NeedingId(SubSeq(rules, 1, k - 1)))]

\* addIdsToRules with the arguments of a rule made explicit
addIdsToRulesFrom(environmentSettings, featureId, n) ==
    [e \in DOMAIN environmentSettings |->
        IF RulesOf(environmentSettings[e]) # <<>>
        THEN With(environmentSettings[e], "rules",
                  IdentifiedRules(environmentSettings[e].rules, featureId,
                                  n + GeneratedBefore(environmentSettings,
                                                      EnvKeys(environmentSettings),
                                                      KeyIndex(EnvKeys(environmentSettings), e))))
        ELSE environmentSettings[e]]

\* lines 126-142: the settings as the call leaves them
addIdsToRules(environmentSettings, featureId) ==
    addIdsToRulesFrom(environmentSettings, featureId, uniq)

\* the ids one call of addIdsToRules generates
GeneratedIds(environmentSettings) ==
    GeneratedBefore(environmentSettings, EnvKeys(environmentSettings),
                    Len(EnvKeys(environmentSettings)) + 1)

\* lines 152-157: the call of queueWebhook
queueWebhook(organization, environments, projects, isFeature) ==
    [fn |-> "queueWebhook", organization |-> organization,
     environments |-> environments, projects |-> projects, isFeature |-> isFeature]

\* lines 144-158
featureUpdated(feature, previousEnvironments, previousProject) ==
    queueWebhook(feature.organization,
                 getEnabledEnvironments(feature) \o previousEnvironments,
                 <<previousProject, OrEmpty(feature, "project")>>,
                 TRUE)

\* the default value stored as it was supplied
parseDefaultValueVerbatim(defaultValue, valueType) == Str(defaultValue)

\* lines 193-211: the text, or the error thrown for a json default
parseDefaultValue(defaultValue, valueType) ==
    IF valueType = "boolean" THEN Str(IF defaultValue = s_true THEN s_true ELSE s_false)
    ELSE IF valueType = "number" THEN Str(FloatText(parseFloat(defaultValue)))
    ELSE IF valueType = "string" THEN Str(defaultValue)
    ELSE IF JSONparse(defaultValue) = Thrown THEN Thrown
    ELSE Str(Stringify(JSONparse(defaultValue), 0))

\* line 241
CreatableTypes == {"boolean", "number", "string", "json"}

\* no check failed
NoError == "(none)"

\* lines 229-247 and 259: the message of the first check that fails
CreateError(feature) ==
    IF ~Truthy(feature, "id") THEN "Must specify feature key"
    ELSE IF ~MatchesKeyPattern(feature.id)
    THEN "Feature keys can only include letters, numbers, hyphens, and underscores."
    ELSE IF ~Present(feature, "organization") THEN "Organization could not be found"
    ELSE IF ~Present(feature, "owner") THEN "Owner must be specified"
    ELSE IF ~Present(feature, "valueType") THEN "Value type must be specified"
    ELSE IF feature.valueType \notin CreatableTypes
    THEN "Value type must be one of boolean, number, string, or json"
    ELSE IF ~Truthy(feature, "defaultValue") THEN "Default value must be specified"
    ELSE IF parseDefaultValue(feature.defaultValue, feature.valueType) = Thrown
    THEN "JSON parse error for default value"
    ELSE NoError

\* lines 249-266: the feature to store, its rules given ids
ResultFeature(feature) ==
    [id |-> toLowerCase(feature.id),
     archived |-> IF "archived" \in DOMAIN feature THEN feature.archived ELSE FALSE,
     organization |-> feature.organization,
     owner |-> feature.owner,
     dateCreated |-> now,
     dateUpdated |-> now,
     valueType |-> feature.valueType,
     defaultValue |-> parseDefaultValue(feature.defaultValue, feature.valueType).s]
    @@ (IF "environmentSettings" \in DOMAIN feature
        THEN "environmentSettings" :> addIdsToRules(feature.environmentSettings,
                                                    toLowerCase(feature.id))
        ELSE NoFields)
    @@ Only(feature, {"description", "project", "tags", "draft", "revision"})

\* a call that has ended, or none made yet
Settled == {"idle", "returned", "rejected"}

\* an Error: its message and, for the fields of an update, the keys it lists
Error(message, keys) == [message |-> message, keys |-> keys]

\* the call ends with the error thrown
Rejected(op, arg, message, keys) ==
    [op |-> op, pc |-> "rejected", n |-> call.n + 1, arg |-> arg,
     error |-> Error(message, keys)]

\* the notification started together with the call of createFeature
AwaitCreateFeatureNotifying(feature, resultFeature) ==
    /\ call' = [op |-> "createFeatureService", pc |-> "createFeature", n |-> call.n + 1,
                arg |-> feature, resultFeature |-> resultFeature]
    /\ log' = <<[fn |-> "createFeature", feature |-> resultFeature],
                featureUpdated(resultFeature, <<>>, "")>>
    /\ now' = now + 1
    /\ uniq' = uniq + GeneratedIds(SettingsOrNone(feature))

\* line 268: createFeature is called and awaited
AwaitCreateFeature(feature, resultFeature) ==
    /\ call' = [op |-> "createFeatureService", pc |-> "createFeature", n |-> call.n + 1,
                arg |-> feature, resultFeature |-> resultFeature]
    /\ log' = <<[fn |-> "createFeature", feature |-> resultFeature]>>
    /\ now' = now + 1
    /\ uniq' = uniq + GeneratedIds(SettingsOrNone(feature))

\* lines 213-268: the checks, the feature to store and the call of createFeature
CreateFeatureService(feature) ==
    /\ call.pc \in Settled
    /\ call.n < MaxCalls
    /\ IF CreateError(feature) # NoError
       THEN /\ call' = Rejected("createFeatureService", feature, CreateError(feature), <<>>)
            /\ log' = <<>>
            /\ UNCHANGED <<now, uniq>>
       ELSE AwaitCreateFeature(feature, ResultFeature(feature))
    /\ UNCHANGED db
    /\ UNCHANGED compiler

\* the error of a persistence call that failed
StorageError == "storage error"

\* createFeature (models/FeatureModel) settles: the feature is stored, or the
\* call fails, as it does when the key is taken
CreateFeature ==
    /\ call.pc = "createFeature"
    /\ \E ok \in (IF call.resultFeature.id \in DOMAIN db THEN {FALSE} ELSE BOOLEAN) :
          IF ok
          THEN /\ db' = (call.resultFeature.id :> call.resultFeature) @@ db
               /\ call' = [call EXCEPT !.pc = "created"]
          ELSE /\ db' = db
               /\ call' = [op |-> call.op, pc |-> "rejected", n |-> call.n,
                           arg |-> call.arg, error |-> Error(StorageError, <<>>)]
    /\ UNCHANGED <<log, now, uniq>>
    /\ UNCHANGED compiler

\* lines 269-271: featureUpdated(resultFeature) is started and the feature returned
CreateReturn ==
    /\ call.pc = "created"
    /\ log' = Append(log, featureUpdated(call.resultFeature, <<>>, ""))
    /\ call' = [op |-> call.op, pc |-> "returned", n |-> call.n, arg |-> call.arg,
                result |-> call.resultFeature]
    /\ UNCHANGED <<db, now, uniq>>
    /\ UNCHANGED compiler

\* the allowed fields with the archived flag among them
allowedKeysAndArchived == <<"tags", "description", "project", "owner", "archived">>

\* line 279: the fields an update may set
allowedKeys == <<"tags", "description", "project", "owner">>

\* the order of the keys of an update
FieldOrder ==
    <<"id", "archived", "description", "organization", "owner", "project", "valueType",
      "defaultValue", "tags", "environmentSettings">>

\* Object.keys(updates)
UpdateKeys(updates) == SelectSeq(FieldOrder, LAMBDA k : k \in DOMAIN updates)

\* lines 286-288
invalidKeys(updates) ==
    SelectSeq(UpdateKeys(updates), LAMBDA k : k \notin Range(allowedKeys))

\* line 302: "project" in updates && updates.project !== feature.project
ProjectChanged(updates, feature) ==
    /\ "project" \in DOMAIN updates
    /\ ~("project" \in DOMAIN feature /\ feature.project = updates.project)

\* lines 307-310: updateFeature is called and awaited; n counts the call
AwaitUpdateFeature(updates, feature, featureId, requiresWebhook, n, called) ==
    /\ call' = [op |-> "updateFeatureService", pc |-> "updateFeature", n |-> n,
                arg |-> updates, feature |-> feature, featureId |-> featureId,
                requiresWebhook |-> requiresWebhook,
                changes |-> ("dateUpdated" :> now) @@ updates]
    /\ log' = Append(called, [fn |-> "updateFeature",
                              organization |-> feature.organization,
                              featureId |-> featureId,
                              changes |-> ("dateUpdated" :> now) @@ updates])
    /\ now' = now + 1

\* line 297: findProjectById is called and awaited
AwaitFindProjectById(updates, feature, featureId) ==
    /\ call' = [op |-> "updateFeatureService", pc |-> "findProjectById", n |-> call.n + 1,
                arg |-> updates, feature |-> feature, featureId |-> featureId]
    /\ log' = <<[fn |-> "findProjectById", id |-> updates.project,
                 organization |-> feature.organization]>>
    /\ now' = now

\* lines 274-297 or, without a project, 274-310: feature is the stored
\* document the caller read for featureId
UpdateFeatureService(updates, featureId) ==
    /\ call.pc \in Settled
    /\ call.n < MaxCalls
    /\ featureId \in DOMAIN db
    /\ IF invalidKeys(updates) # <<>>
       THEN /\ call' = Rejected("updateFeatureService", updates,
                                "Invalid update fields for feature", invalidKeys(updates))
            /\ log' = <<>>
            /\ now' = now
       ELSE IF Present(updates, "project")
       THEN AwaitFindProjectById(updates, db[featureId], featureId)
       ELSE AwaitUpdateFeature(updates, db[featureId], featureId, FALSE, call.n + 1, <<>>)
    /\ UNCHANGED <<db, uniq>>
    /\ UNCHANGED compiler

\* FindProjectById with the update stored before the project is looked at
FindProjectByIdAfterUpdate ==
    /\ call.pc = "findProjectById"
    /\ \E found \in BOOLEAN :
          IF ~found
          THEN /\ call' = [op |-> call.op, pc |-> "rejected", n |-> call.n, arg |-> call.arg,
                           error |-> Error("Project not found", <<>>)]
               /\ log' = Append(log, [fn |-> "updateFeature",
                                      organization |-> call.feature.organization,
                                      featureId |-> call.featureId,
                                      changes |-> ("dateUpdated" :> now) @@ call.arg])
               /\ db' = [db EXCEPT ![call.featureId] = call.arg @@ @]
               /\ now' = now + 1
          ELSE /\ AwaitUpdateFeature(call.arg, call.feature, call.featureId,
                                     ProjectChanged(call.arg, call.feature), call.n, log)
               /\ db' = db
    /\ UNCHANGED uniq
    /\ UNCHANGED compiler

\* lines 297-310: findProjectById (models/ProjectModel) settles with the
\* project or with none
FindProjectById ==
    /\ call.pc = "findProjectById"
    /\ \E found \in BOOLEAN :
          IF ~found
          THEN /\ call' = [op |-> call.op, pc |-> "rejected", n |-> call.n, arg |-> call.arg,
                           error |-> Error("Project not found", <<>>)]
               /\ UNCHANGED <<log, now>>
          ELSE AwaitUpdateFeature(call.arg, call.feature, call.featureId,
                                  ProjectChanged(call.arg, call.feature), call.n, log)
    /\ UNCHANGED <<db, uniq>>
    /\ UNCHANGED compiler

\* updateFeature (models/FeatureModel) settles: the changes are set on the
\* stored document, or the call fails
UpdateFeature ==
    /\ call.pc = "updateFeature"
    /\ \E ok \in BOOLEAN :
          IF ok
          THEN /\ db' = [db EXCEPT ![call.featureId] = call.changes @@ @]
               /\ call' = [call EXCEPT !.pc = "updated"]
          ELSE /\ db' = db
               /\ call' = [op |-> call.op, pc |-> "rejected", n |-> call.n,
                           arg |-> call.arg, error |-> Error(StorageError, <<>>)]
    /\ UNCHANGED <<log, now, uniq>>
    /\ UNCHANGED compiler

\* line 312: { ...feature, ...updates }
NewFeature(feature, updates) == updates @@ feature

\* lines 312-322: the webhook when it is required, and the new feature returned
UpdateReturn ==
    /\ call.pc = "updated"
    /\ log' = IF call.requiresWebhook
              THEN Append(log, featureUpdated(NewFeature(call.feature, call.arg),
                                              getEnabledEnvironments(call.feature),
                                              OrEmpty(call.feature, "project")))
              ELSE log
    /\ call' = [op |-> call.op, pc |-> "returned", n |-> call.n, arg |-> call.arg,
                feature |-> call.feature, result |-> NewFeature(call.feature, call.arg)]
    /\ UNCHANGED <<db, now, uniq>>
    /\ UNCHANGED compiler

----------------------------------------------------------------------------
(* The requests the services are called with *)

BaseFeature ==
    [id |-> <<"A", "b">>, organization |-> "org1", owner |-> "ann",
     valueType |-> "boolean", defaultValue |-> s_true]

\* r without the field f
Without(r, f) == [g \in DOMAIN r \ {f} |-> r[g]]

\* Environment settings whose rules have and lack ids and tracking keys
RequestSettings ==
    { <<>>,
      [production |-> [enabled |-> TRUE]],
      [production |-> Settings(TRUE,
                          <<ExperimentRule(TRUE, <<Variation(s_true, Unit)>>, Unit),
                            With(ForceRule(TRUE, s_true), "id", s_fr1),
                            ForceRule(FALSE, s_false)>>),
       dev |-> Settings(FALSE, <<With(ForceRule(TRUE, s_false), "id", s_empty)>>)],
      [production |-> Settings(FALSE, <<>>),
       dev |-> Settings(TRUE,
                   <<With(ExperimentRule(TRUE, <<Variation(s_true, Unit)>>, Unit),
                          "trackingKey", s_key)>>)] }

RequestProjects == {"", "p1", "p2"}

\* Requests that pass every check of createFeatureService
ValidRequests ==
    {BaseFeature, With(BaseFeature, "archived", TRUE),
     With(BaseFeature, "id", <<"X", "_", ".", ":", "|", "-", "1", "y">>)}
        \cup {With(BaseFeature, "project", p) : p \in RequestProjects}
        \cup {With(BaseFeature, "environmentSettings", s) : s \in RequestSettings}
        \cup {With(With(BaseFeature, "project", "p1"), "environmentSettings", s) :
                 s \in RequestSettings}
        \cup {With(With(BaseFeature, "valueType", tv[1]), "defaultValue", tv[2]) :
                 tv \in { <<"boolean", s_no>>, <<"number", s_1p5>>,
                          <<"number", s_abc>>, <<"string", s_abc>>,
                          <<"json", s_object>> }}

\* Requests that fail one check, the later checks passing or failing too
InvalidRequests ==
    {Without(BaseFeature, f) : f \in DOMAIN BaseFeature}
        \cup {With(BaseFeature, "id", k) : k \in {s_empty, <<"a", " ", "b">>, <<"a", "/">>}}
        \cup {With(BaseFeature, f, "") : f \in {"organization", "owner", "valueType"}}
        \cup {With(BaseFeature, "valueType", "other"),
              With(BaseFeature, "defaultValue", s_empty),
              With(With(BaseFeature, "valueType", "json"), "defaultValue", s_badJson),
              With(With(BaseFeature, "id", <<"a", " ">>), "owner", "")}

CreateRequests == ValidRequests \cup InvalidRequests

\* Updates of allowed fields only
ValidUpdates ==
    {<<>>, [description |-> "text"]}
        \cup {[project |-> p] : p \in RequestProjects}
        \cup {[project |-> "p2", owner |-> "bob"], [project |-> "", tags |-> <<"t1">>],
              [owner |-> "bob"]}

\* Updates with one or more fields that are not allowed
InvalidUpdates ==
    { [id |-> <<"z">>],
      [archived |-> TRUE, defaultValue |-> s_false],
      [project |-> "p2", valueType |-> "number"],
      [environmentSettings |-> <<>>],
      [organization |-> "org2", owner |-> "bob"] }

UpdateRequests == ValidUpdates \cup InvalidUpdates

\* the ids a request may name
StoredIds == {toLowerCase(f.id) : f \in ValidRequests}

\* no call of getFeatureDefinitions is in progress
NoCompilation ==
    /\ store = <<>>
    /\ envArg = NoEnvironment
    /\ pc = "idle"
    /\ features = <<>>
    /\ idx = 1
    /\ defs = <<>>

\* A feature created before the run: of project p1, enabled in production
StoredFeature ==
    [id |-> <<"a", "b">>, archived |-> FALSE, organization |-> "org1", owner |-> "ann",
     dateCreated |-> 0, dateUpdated |-> 0, valueType |-> "boolean",
     defaultValue |-> s_true, project |-> "p1",
     environmentSettings |->
         [production |-> Settings(TRUE, <<With(ForceRule(TRUE, s_false), "id", s_fr1)>>),
          dev |-> Settings(FALSE, <<>>)]]

\* the storage is empty or holds the feature created before
InitServices ==
    /\ NoCompilation
    /\ db \in {<<>>, StoredFeature.id :> StoredFeature}
    /\ call = Idle
    /\ log = <<>>
    /\ now = 1
    /\ uniq = 1

NextServices ==
    \/ \E feature \in CreateRequests : CreateFeatureService(feature)
    \/ CreateFeature
    \/ CreateReturn
    \/ \E updates \in UpdateRequests, featureId \in StoredIds :
          UpdateFeatureService(updates, featureId)
    \/ FindProjectById
    \/ UpdateFeature
    \/ UpdateReturn

SpecServices == InitServices /\ [][NextServices]_vars

----------------------------------------------------------------------------
(* The SDK payload handler (api/sdk-payload/getSdkPayload.ts).  A request   *)
(* is its key parameter and the environments of the organization settings  *)
(* in its context.  filterProjectsByEnvironment (shared/util) and the form *)
(* of getFeatureDefinitions that takes a list of projects are taken from   *)
(* the specification of the Environment/Project Filter and of the Feature  *)
(* Definition Assembler.                                                    *)

\* the environment's restriction to projects, none when it has none
Restriction(environmentDoc) ==
    IF environmentDoc # None /\ "projects" \in DOMAIN environmentDoc
    THEN environmentDoc.projects
    ELSE <<>>

\* filterProjects(requestedProjects, environmentDefinition, strict): the
\* intersection of the requester's scope and the environment's restriction;
\* the scope alone when the environment has no restriction; the restriction
\* alone when strict and the requester declared no scope
filterProjectsByEnvironment(projects, environmentDoc, strict) ==
    IF Restriction(environmentDoc) = <<>> THEN projects
    ELSE IF projects = <<>> THEN (IF strict THEN Restriction(environmentDoc) ELSE projects)
    ELSE SelectSeq(projects, LAMBDA p : p \in Range(Restriction(environmentDoc)))

\* is the feature in the scope of the projects handed to the assembler; no
\* project in the list is no restriction
InScope(feature, projects) ==
    projects = <<>> \/ OrEmpty(feature, "project") \in Range(projects)

\* the features of the collection the assembler loads and does not skip
Assembled(collection, env, projects) ==
    SelectSeq(collection, LAMBDA f : InScope(f, projects) /\ ~Skipped(f, env))

\* getFeatureDefinitions({environment, projects, ...}): the payload
FeatureDefinitionsOf(collection, env, projects) ==
    [features |->
        [id \in {f.id : f \in Range(Assembled(collection, env, projects))} |->
            LET f == CHOOSE g \in Range(collection) : g.id = id
            IN  FeatureDefinition(f, SettingsOf(f, env))]]

\* lines 11-13: !key
Keyed(req) == "key" \in DOMAIN req /\ req.key # ""

\* lines 29-31: the environment of the organization settings with that id
EnvironmentDoc(req, env) ==
    IF "environments" \in DOMAIN req
          /\ \E i \in 1..Len(req.environments) : req.environments[i].id = env
    THEN req.environments[CHOOSE i \in 1..Len(req.environments) :
                              /\ req.environments[i].id = env
                              /\ \A j \in 1..(i - 1) : req.environments[j].id # env]
    ELSE None

\* lines 17-27: getPayloadParamsFromApiKey is called and awaited
AwaitPayloadParams(req) ==
    /\ call' = [op |-> "getSdkPayload", pc |-> "getPayloadParamsFromApiKey",
                n |-> call.n + 1, arg |-> req]
    /\ log' = <<[fn |-> "getPayloadParamsFromApiKey", key |-> OrEmpty(req, "key")]>>

\* the handler without the test of the key
GetSdkPayloadAnyKey(req) ==
    /\ call.pc \in Settled
    /\ call.n < MaxCalls
    /\ AwaitPayloadParams(req)
    /\ UNCHANGED <<db, now, uniq>>
    /\ UNCHANGED compiler

\* lines 9-27: the key is read and tested and the parameters are asked for
GetSdkPayload(req) ==
    /\ call.pc \in Settled
    /\ call.n < MaxCalls
    /\ IF ~Keyed(req)
       THEN /\ call' = Rejected("getSdkPayload", req, "Missing API key in request", <<>>)
            /\ log' = <<>>
       ELSE AwaitPayloadParams(req)
    /\ UNCHANGED <<db, now, uniq>>
    /\ UNCHANGED compiler

\* getFeatureDefinitions called with the requester's projects
AwaitFeatureDefinitionsUnfiltered(params, environmentDoc, filteredProjects) ==
    /\ call' = [op |-> call.op, pc |-> "getFeatureDefinitions", n |-> call.n,
                arg |-> call.arg, params |-> params, filteredProjects |-> filteredProjects]
    /\ log' = log \o
                << [fn |-> "filterProjectsByEnvironment", projects |-> params.projects,
                    environment |-> environmentDoc, strict |-> TRUE,
                    result |-> filteredProjects],
                   [fn |-> "getFeatureDefinitions", environment |-> params.environment,
                    projects |-> params.projects,
                    encryptionKey |-> IF params.encrypted THEN params.encryptionKey
                                      ELSE ""] >>

\* lines 32-48: the filter is applied and getFeatureDefinitions called with
\* its result
AwaitFeatureDefinitions(params, environmentDoc, filteredProjects) ==
    /\ call' = [op |-> call.op, pc |-> "getFeatureDefinitions", n |-> call.n,
                arg |-> call.arg, params |-> params, filteredProjects |-> filteredProjects]
    /\ log' = log \o
                << [fn |-> "filterProjectsByEnvironment", projects |-> params.projects,
                    environment |-> environmentDoc, strict |-> TRUE,
                    result |-> filteredProjects],
                   [fn |-> "getFeatureDefinitions", environment |-> params.environment,
                    projects |-> filteredProjects,
                    encryptionKey |-> IF params.encrypted THEN params.encryptionKey
                                      ELSE ""] >>

\* the key is not known
KeyError == "invalid API key"

\* lines 17-48: getPayloadParamsFromApiKey (controllers/features) settles
\* with the parameters of the key or fails
PayloadParams(params) ==
    /\ call.pc = "getPayloadParamsFromApiKey"
    /\ AwaitFeatureDefinitions(params, EnvironmentDoc(call.arg, params.environment),
                               filterProjectsByEnvironment(
                                   params.projects,
                                   EnvironmentDoc(call.arg, params.environment), TRUE))
    /\ UNCHANGED <<db, now, uniq>>
    /\ UNCHANGED compiler

PayloadParamsFail ==
    /\ call.pc = "getPayloadParamsFromApiKey"
    /\ call' = [op |-> call.op, pc |-> "rejected", n |-> call.n, arg |-> call.arg,
                error |-> Error(KeyError, <<>>)]
    /\ UNCHANGED <<db, log, now, uniq>>
    /\ UNCHANGED compiler

\* lines 38-53: getFeatureDefinitions settles and { status: 200, ...defs }
\* is returned
PayloadReturn ==
    /\ call.pc = "getFeatureDefinitions"
    /\ call' = [op |-> call.op, pc |-> "returned", n |-> call.n, arg |-> call.arg,
                params |-> call.params, filteredProjects |-> call.filteredProjects,
                result |-> ("status" :> 200)
                              @@ FeatureDefinitionsOf(store, log[Len(log)].environment,
                                                      log[Len(log)].projects)]
    /\ UNCHANGED <<db, log, now, uniq>>
    /\ UNCHANGED compiler

\* A feature of a project, enabled in production
ProjectFeature(id, project, archived) ==
    With(InEnvironment(Feature(id, "boolean", s_true, archived), "production",
                       Settings(TRUE, <<ForceRule(TRUE, s_false)>>)),
         "project", project)

\* The stored collections of the payload requests
PayloadStores ==
    { <<>>,
      << ProjectFeature(FeatureIds[1], "p1", FALSE), ProjectFeature(FeatureIds[2], "p2", FALSE),
         Companion(FeatureIds[3], FALSE) >>,
      << ProjectFeature(FeatureIds[1], "p2", FALSE), ProjectFeature(FeatureIds[2], "p1", TRUE),
         InEnvironment(ProjectFeature(FeatureIds[3], "p1", FALSE), "dev",
                       Settings(TRUE, <<>>)) >> }

\* The environments of the organization settings
OrgEnvironments ==
    { <<>>,
      <<[id |-> "production", projects |-> <<"p1">>], [id |-> "dev"]>>,
      <<[id |-> "production", projects |-> <<>>],
        [id |-> "dev", projects |-> <<"p1", "p2">>]>> }

PayloadRequests ==
    {<<>>, [key |-> ""], [key |-> "sdk-1"]}
        \cup {[key |-> k, environments |-> e] : k \in {"", "sdk-1"}, e \in OrgEnvironments}

\* What getPayloadParamsFromApiKey may resolve a key to
PayloadParameters ==
    { [environment |-> e, projects |-> p, encrypted |-> c, encryptionKey |-> "secret"] :
          e \in Environments \cup {"staging"},
          p \in {<<>>, <<"p1">>, <<"p2">>, <<"p1", "p2">>},
          c \in BOOLEAN }

InitPayload ==
    /\ store \in PayloadStores
    /\ envArg = NoEnvironment
    /\ pc = "idle"
    /\ features = <<>>
    /\ idx = 1
    /\ defs = <<>>
    /\ NoServiceCall

NextPayload ==
    \/ \E req \in PayloadRequests : GetSdkPayload(req)
    \/ \E params \in PayloadParameters : PayloadParams(params)
    \/ PayloadParamsFail
    \/ PayloadReturn

SpecPayload == InitPayload /\ [][NextPayload]_vars

----------------------------------------------------------------------------
(* verifyDraftsAreEqual: a draft is None when the argument is undefined; a   *)
(* field read off a draft is undefined when the draft or the field is       *)
(* absent.                                                                  *)

\* draft?.field
Optional(draft, field) ==
    IF draft # None /\ field \in DOMAIN draft
    THEN [undefined |-> FALSE, value |-> draft[field]]
    ELSE [undefined |-> TRUE]

\* lines 177-180 and 181-184: { defaultValue: draft?.defaultValue, rules: draft?.rules }
Reviewed(draft) ==
    [defaultValue |-> Optional(draft, "defaultValue"), rules |-> Optional(draft, "rules")]

\* lodash isEqual: deep equality of the two values
isEqual(a, b) == a = b

\* the comparison made on the whole drafts
WholeDraftsDiffer(actual, expected) == ~isEqual(actual, expected)

\* lines 175-186
DraftsDiffer(actual, expected) == ~isEqual(Reviewed(actual), Reviewed(expected))

\* lines 171-191
VerifyDraftsAreEqual(actual, expected) ==
    /\ call.pc \in Settled
    /\ call.n < MaxCalls
    /\ call' = IF DraftsDiffer(actual, expected)
               THEN [op |-> "verifyDraftsAreEqual", pc |-> "rejected", n |-> call.n + 1,
                     actual |-> actual, expected |-> expected,
                     error |-> Error("New changes have been made to this feature. Please review and try again.",
                                     <<>>)]
               ELSE [op |-> "verifyDraftsAreEqual", pc |-> "returned", n |-> call.n + 1,
                     actual |-> actual, expected |-> expected]
    /\ UNCHANGED <<db, log, now, uniq>>
    /\ UNCHANGED compiler

\* Rules of a draft, per environment
DraftRules ==
    { <<>>,
      [production |-> <<>>],
      [production |-> <<ForceRule(TRUE, s_true)>>],
      [production |-> <<ForceRule(TRUE, s_true), ForceRule(FALSE, s_false)>>],
      [production |-> <<ForceRule(FALSE, s_false), ForceRule(TRUE, s_true)>>],
      [production |-> <<ForceRule(TRUE, s_true)>>, dev |-> <<>>] }

\* Drafts that differ in the default value, in the rules and in other fields
Drafts ==
    { [active |-> FALSE], [active |-> TRUE, comment |-> "c"] }
        \cup {[active |-> TRUE, defaultValue |-> v] : v \in {s_true, s_false, s_empty}}
        \cup {[active |-> TRUE, rules |-> r] : r \in DraftRules}
        \cup {[active |-> TRUE, defaultValue |-> s_true, rules |-> r, dateCreated |-> d] :
                 r \in {[production |-> <<ForceRule(TRUE, s_true)>>],
                        [production |-> <<ForceRule(TRUE, s_false)>>]},
                 d \in 1..2}

InitDrafts == NoCompilation /\ NoServiceCall

NextDrafts ==
    \E actual \in Drafts \cup {None}, expected \in Drafts \cup {None} :
        VerifyDraftsAreEqual(actual, expected)

SpecDrafts == InitDrafts /\ [][NextDrafts]_vars

----------------------------------------------------------------------------
(* Concurrent invocations of getFeatureDefinitions.  The first invocation   *)
(* is the one of the compiler variables; a second invocation of the same    *)
(* function, for the same organization and an environment of its own, has   *)
(* its frame in call.  Storage is written by other requests at any point    *)
(* between the steps of the two.                                            *)

\* the frame of the second invocation before its first step
Invocation(env) ==
    [op |-> "getFeatureDefinitions", pc |-> "call", n |-> 0, envArg |-> env,
     features |-> <<>>, idx |-> 1, defs |-> <<>>]

\* line 38, in the second invocation
EnvironmentOf(frame) == IF frame.envArg = NoEnvironment THEN "production" ELSE frame.envArg

\* line 41, in the second invocation
OtherLoadFeatures ==
    /\ call.op = "getFeatureDefinitions"
    /\ call.pc = "call"
    /\ call' = [call EXCEPT !.features = store, !.idx = 1, !.defs = <<>>, !.pc = "forEach"]
    /\ UNCHANGED <<db, log, now, uniq>>
    /\ UNCHANGED compiler

\* lines 52-110, in the second invocation
OtherSetDefinition(frame, id, def) ==
    IF DefinitionThrew(def)
    THEN [frame EXCEPT !.pc = "threw", !.idx = frame.idx + 1]
    ELSE [frame EXCEPT !.defs = (id :> def) @@ frame.defs, !.idx = frame.idx + 1]

\* lines 44-111, in the second invocation
OtherCompileFeature ==
    /\ call.op = "getFeatureDefinitions"
    /\ call.pc = "forEach"
    /\ call.idx <= Len(call.features)
    /\ call' = IF Skipped(call.features[call.idx], EnvironmentOf(call))
               THEN [call EXCEPT !.idx = call.idx + 1]
               ELSE OtherSetDefinition(call, call.features[call.idx].id,
                                       FeatureDefinition(call.features[call.idx],
                                                         SettingsOf(call.features[call.idx],
                                                                    EnvironmentOf(call))))
    /\ UNCHANGED <<db, log, now, uniq>>
    /\ UNCHANGED compiler

\* line 113, in the second invocation
OtherReturn ==
    /\ call.op = "getFeatureDefinitions"
    /\ call.pc = "forEach"
    /\ call.idx > Len(call.features)
    /\ call' = [call EXCEPT !.pc = "returned"]
    /\ UNCHANGED <<db, log, now, uniq>>
    /\ UNCHANGED compiler

\* The collections that storage passes through: features appear, change their
\* rules and settings, are archived and disappear
ConcurrentStores ==
    LET shown == Feature(FeatureIds[1], "boolean", s_true, FALSE)
        on == InEnvironment(shown, "production", Settings(TRUE, <<ForceRule(TRUE, s_false)>>))
        both == InEnvironment(on, "dev", Settings(TRUE, <<RolloutRule(TRUE, s_true, Dec(5, 1))>>))
        off == InEnvironment(shown, "production", Settings(FALSE, <<>>))
        archived == With(on, "archived", TRUE)
    IN  { <<>>, <<on>>, <<both>>, <<off>> \o Companions(MaxFeatures - 1),
          <<archived>> \o Companions(MaxFeatures - 1),
          Companions(MaxFeatures - 1) \o <<on>> }

\* a write to storage by another request; now counts the writes
StorageWrite ==
    /\ now < MaxWrites
    /\ store' \in ConcurrentStores \ {store}
    /\ now' = now + 1
    /\ UNCHANGED <<envArg, pc, features, idx, defs>>
    /\ UNCHANGED <<db, call, log, uniq>>

InitConcurrent ==
    /\ store \in ConcurrentStores
    /\ envArg \in Environments \cup {NoEnvironment}
    /\ pc = "call"
    /\ features = <<>>
    /\ idx = 1
    /\ defs = <<>>
    /\ db = <<>>
    /\ call \in {Invocation(env) : env \in Environments \cup {NoEnvironment}}
    /\ log = <<>>
    /\ now = 0
    /\ uniq = 0

NextConcurrent ==
    \/ LoadFeatures
    \/ CompileFeature
    \/ Return
    \/ OtherLoadFeatures
    \/ OtherCompileFeature
    \/ OtherReturn
    \/ StorageWrite

SpecConcurrent == InitConcurrent /\ [][NextConcurrent]_vars

----------------------------------------------------------------------------
(* Creation followed by compilation: getFeatureDefinitions reads the        *)
(* features that createFeatureService has stored.                           *)

s_TRUE == <<"T", "R", "U", "E">>
s_paddedTrue == <<" ", "t", "r", "u", "e">>

\* the default values supplied for boolean features
BooleanDefaults ==
    <<s_true, s_false, s_False, s_no, s_0, s_TRUE, s_paddedTrue, s_empty>>

\* Boolean features enabled in production, one key for each supplied default
DefaultRequests ==
    { [id |-> <<"B", DigitText[i + 1]>>, organization |-> "org1", owner |-> "ann",
       valueType |-> "boolean", defaultValue |-> BooleanDefaults[i],
       environmentSettings |->
           [production |-> Settings(TRUE, <<ForceRule(TRUE, s_false)>>)]] :
         i \in 1..Len(BooleanDefaults) }

\* the stored features in an order of storage's choice
StoredCollections ==
    LET n == Cardinality(DOMAIN db)
    IN  { [i \in 1..n |-> db[order[i]]] :
            order \in {q \in [1..n -> DOMAIN db] : \A i, j \in 1..n : q[i] = q[j] => i = j} }

\* line 41: getAllFeatures returns what the services have stored
LoadCreatedFeatures ==
    /\ pc = "call"
    /\ features' \in StoredCollections
    /\ idx' = 1
    /\ defs' = <<>>
    /\ pc' = "forEach"
    /\ UNCHANGED <<store, envArg>>
    /\ UNCHANGED services

InitCreateCompile ==
    /\ store = <<>>
    /\ envArg \in {"production", NoEnvironment}
    /\ pc = "call"
    /\ features = <<>>
    /\ idx = 1
    /\ defs = <<>>
    /\ NoServiceCall

NextCreateCompile ==
    \/ \E feature \in DefaultRequests : CreateFeatureService(feature)
    \/ CreateFeature
    \/ CreateReturn
    \/ LoadCreatedFeatures
    \/ CompileFeature
    \/ Return

SpecCreateCompile == InitCreateCompile /\ [][NextCreateCompile]_vars

----------------------------------------------------------------------------
(* The notification in flight: featureUpdated is called without await, so   *)
(* the promise of queueWebhook (jobs/webhooks) settles after the service    *)
(* has returned.                                                            *)

\* the places in the log of the notifications that have not settled
Pending == {i \in 1..Len(log) : log[i].fn = "queueWebhook" /\ "settled" \notin DOMAIN log[i]}

\* line 152: the promise of queueWebhook is fulfilled or rejected; nothing
\* awaits the promise of featureUpdated (lines 269, 315)
QueueWebhook ==
    /\ \E i \in Pending, outcome \in {"queued", "failed"} :
          log' = [log EXCEPT ![i] = With(@, "settled", outcome)]
    /\ UNCHANGED <<db, call, now, uniq>>
    /\ UNCHANGED compiler

\* Requests that are stored with and without a project, and one that is rejected
NotifyRequests ==
    { BaseFeature, Without(BaseFeature, "owner") }
        \cup {With(With(BaseFeature, "project", "p1"), "environmentSettings", s) :
                 s \in RequestSettings}

NotifyUpdates ==
    { [project |-> "p2"], [project |-> ""], [description |-> "text"], [id |-> <<"z">>] }

NextNotify ==
    \/ \E feature \in NotifyRequests : CreateFeatureService(feature)
    \/ CreateFeature
    \/ CreateReturn
    \/ \E updates \in NotifyUpdates : UpdateFeatureService(updates, toLowerCase(BaseFeature.id))
    \/ FindProjectById
    \/ UpdateFeature
    \/ UpdateReturn
    \/ QueueWebhook

SpecNotify == InitServices /\ [][NextNotify]_vars

----------------------------------------------------------------------------
(* Vocabulary of the properties *)

Returned == pc = "returned"

\* the loaded features
Loaded == {features[i] : i \in 1..Len(features)}

\* not archived, with an entry for the requested environment that is enabled
Included(f) ==
    /\ ~f.archived
    /\ "environmentSettings" \in DOMAIN f
    /\ environment \in DOMAIN f.environmentSettings
    /\ f.environmentSettings[environment].enabled

\* the rule sequence stored for the requested environment (of an included feature)
StoredRules(f) ==
    IF "rules" \in DOMAIN f.environmentSettings[environment]
    THEN f.environmentSettings[environment].rules
    ELSE <<>>

EnabledRules(f) == SelectSeq(StoredRules(f), LAMBDA r : r.enabled)

\* the rules of the definition emitted for f, none when the field is absent
EmittedRules(f) == IF "rules" \in DOMAIN defs[f.id] THEN defs[f.id].rules ELSE <<>>

\* the fields of a compiled rule apart from the condition
TypeFields(rule) == DOMAIN rule \ {"condition"}

----------------------------------------------------------------------------
\* C1: the returned mapping has the key f.id exactly for the features that are
\* not archived and have an enabled entry for the environment; every entry is
\* a definition with a defaultValue, and a skipped feature has no entry.
C1_KeysAreTheIncludedFeatures ==
    Returned =>
        /\ DOMAIN defs = {f.id : f \in {g \in Loaded : Included(g)}}
        /\ \A id \in DOMAIN defs : "defaultValue" \in DOMAIN defs[id]

\* an archived feature that is enabled and carries rules is left out beside a
\* feature that is emitted
C1_Witness ==
    /\ Returned
    /\ \E f, g \in Loaded :
          /\ f.archived
          /\ "environmentSettings" \in DOMAIN f
          /\ environment \in DOMAIN f.environmentSettings
          /\ f.environmentSettings[environment].enabled
          /\ EnabledRules(f) # <<>>
          /\ f.id \notin DOMAIN defs
          /\ g.id \in DOMAIN defs

\* C2: an emitted definition has no rules field or a non-empty one; a feature
\* with no rules, no rules list or only disabled rules gets defaultValue alone.
C2_RulesAbsentOrNonEmpty ==
    /\ \A id \in DOMAIN defs :
          "rules" \in DOMAIN defs[id] => Len(defs[id].rules) > 0
    /\ Returned =>
          \A f \in Loaded :
              Included(f) /\ (\A k \in 1..Len(StoredRules(f)) : ~StoredRules(f)[k].enabled)
                  => DOMAIN defs[f.id] = {"defaultValue"}

\* a feature whose rules are all disabled is emitted without a rules field
C2_Witness ==
    /\ Returned
    /\ \E f \in Loaded :
          /\ Included(f)
          /\ StoredRules(f) # <<>>
          /\ EnabledRules(f) = <<>>
          /\ DOMAIN defs[f.id] = {"defaultValue"}

\* C3 as stated: an enabled rule of unknown type contributes no record, so the
\* emitted rules are as many as the enabled rules of the three known types.
C3_UnknownTypeOmitted ==
    Returned =>
        \A f \in Loaded :
            Included(f) =>
                Len(EmittedRules(f))
                    = Len(SelectSeq(EnabledRules(f), LAMBDA r : r.type \in RuleTypes))

\* C3: an enabled rule of unknown type is compiled like any other: it takes
\* its place in the rules sequence as a record without type-specific fields.
C3_UnknownTypeCompiledBare ==
    Returned =>
        \A f \in Loaded :
            Included(f) =>
                /\ Len(EmittedRules(f)) = Len(EnabledRules(f))
                /\ \A k \in 1..Len(EnabledRules(f)) :
                      EnabledRules(f)[k].type \notin RuleTypes
                          => TypeFields(EmittedRules(f)[k]) = {}

\* the only enabled rule is of unknown type and the rules field holds one
\* record without fields
C3_Witness ==
    /\ Returned
    /\ \E f \in Loaded :
          /\ Included(f)
          /\ Len(EnabledRules(f)) = 1
          /\ EnabledRules(f)[1].type = "other"
          /\ "rules" \in DOMAIN defs[f.id]
          /\ defs[f.id].rules = <<NoFields>>

\* does the compiled rule c carry the fields of the stored rule r
Matches(r, c, valueType) ==
    IF r.type = "force"
    THEN TypeFields(c) = {"force"} /\ c.force = getJSONValue(valueType, r.value)
    ELSE IF r.type = "rollout"
    THEN /\ {"force", "coverage"} \subseteq TypeFields(c)
         /\ "variations" \notin TypeFields(c)
         /\ c.force = getJSONValue(valueType, r.value)
    ELSE IF r.type = "experiment"
    THEN /\ {"variations", "coverage", "weights"} \subseteq TypeFields(c)
         /\ "force" \notin TypeFields(c)
         /\ Len(c.variations) = Len(r.values)
    ELSE TypeFields(c) = {}

\* the emitted rules of f are the compiled forms of the stored rules in rs, in order
InOrder(f, rs) ==
    /\ Len(EmittedRules(f)) = Len(rs)
    /\ \A k \in 1..Len(rs) : Matches(rs[k], EmittedRules(f)[k], f.valueType)

\* C4 as stated: the emitted rules are, one to one and in order, the enabled
\* rules of type force, experiment or rollout.
C4_OrderOfKnownRules ==
    Returned =>
        \A f \in Loaded :
            Included(f) =>
                InOrder(f, SelectSeq(EnabledRules(f), LAMBDA r : r.type \in RuleTypes))

\* C4: the emitted rules are, one to one and in stored order, the enabled
\* rules of every type; disabled rules contribute nothing.
C4_OrderOfEnabledRules ==
    Returned => \A f \in Loaded : Included(f) => InOrder(f, EnabledRules(f))

\* a disabled rule stands between two enabled rules of different types, and
\* the two are emitted in their stored order
C4_Witness ==
    /\ Returned
    /\ \E f \in Loaded :
          /\ Included(f)
          /\ Len(StoredRules(f)) = 3
          /\ ~StoredRules(f)[2].enabled
          /\ StoredRules(f)[1].type = "rollout"
          /\ StoredRules(f)[3].type = "force"
          /\ Len(EmittedRules(f)) = 2
          /\ "coverage" \in DOMAIN EmittedRules(f)[1]
          /\ DOMAIN EmittedRules(f)[2] = {"force"}

\* the value the Value Coercer is specified to give
Coerced(valueType, raw) ==
    CASE valueType = "json" ->
             IF JSONparse(raw) = Thrown THEN Null ELSE JSONparse(raw)
      [] valueType = "number" ->
             IF parseFloat(raw).nan THEN Num(0) ELSE Num(parseFloat(raw).n)
      [] valueType = "string" -> Str(raw)
      [] valueType = "boolean" -> IF raw = s_false THEN Bool(FALSE) ELSE Bool(TRUE)
      [] OTHER -> Null

\* C5: coercion never throws and gives, for json the parsed value or null,
\* for number the parsed number or 0, for string the text, for boolean false
\* only for "false", and null for any other value type.
C5_CoercionTable ==
    /\ pc # "threw"
    /\ Returned =>
          \A f \in Loaded :
              Included(f) =>
                  LET v == defs[f.id].defaultValue
                      raw == f.defaultValue
                  IN  /\ v = Coerced(f.valueType, raw)
                      /\ f.valueType = "boolean" /\ raw \in {s_empty, s_0, s_no, s_False}
                            => v = Bool(TRUE)
                      /\ f.valueType = "boolean" /\ raw = s_false => v = Bool(FALSE)
                      /\ f.valueType = "number" /\ raw \in {s_abc, s_empty} => v = Num(0)
                      /\ f.valueType = "number" /\ raw = s_12abc => v = Num(12 * Unit)
                      /\ f.valueType = "json" /\ raw \in {s_badJson, s_empty, s_False}
                            => v = Null
                      /\ f.valueType = "json" /\ raw = s_quoted => v = Str(s_no)
                      /\ f.valueType = "string" /\ raw = s_false => v = Str(s_false)

\* the boolean default "False" is emitted as true
C5_Witness ==
    /\ Returned
    /\ \E f \in Loaded :
          /\ Included(f)
          /\ f.valueType = "boolean"
          /\ f.defaultValue = s_False
          /\ defs[f.id].defaultValue = Bool(TRUE)

\* is the text malformed for the value type
Malformed(valueType, raw) ==
    \/ valueType = "json" /\ JSONparse(raw) = Thrown
    \/ valueType = "number" /\ parseFloat(raw).nan

\* C6: malformed stored text never aborts the compilation: no call ends in an
\* error, every included feature has its entry, and the malformed value is
\* replaced by null, 0 or the omission of the field.
C6_MalformedDataRecovered ==
    /\ pc # "threw"
    /\ Returned =>
          \A f \in Loaded :
              Included(f) =>
                  /\ f.id \in DOMAIN defs
                  /\ Malformed(f.valueType, f.defaultValue)
                        => defs[f.id].defaultValue \in {Null, Num(0)}
                  /\ Len(EmittedRules(f)) = Len(EnabledRules(f))
                  /\ \A k \in 1..Len(EnabledRules(f)) :
                        LET r == EnabledRules(f)[k]
                            c == EmittedRules(f)[k]
                        IN  /\ r.type \in {"force", "rollout"}
                                   /\ Malformed(f.valueType, r.value)
                                 => c.force \in {Null, Num(0)}
                            /\ "condition" \in DOMAIN r /\ JSONparse(r.condition) = Thrown
                                 => "condition" \notin DOMAIN c
                            /\ "namespace" \in DOMAIN c
                                   /\ parseFloat(r.namespace.range[1]).nan
                                 => c.namespace[2] = 0

\* a feature whose forced value and condition are both malformed is emitted
\* with the forced value null and no condition
C6_Witness ==
    /\ Returned
    /\ \E f \in Loaded :
          /\ Included(f)
          /\ Len(EnabledRules(f)) = 1
          /\ f.valueType = "json"
          /\ EnabledRules(f)[1].type = "force"
          /\ EnabledRules(f)[1].value = s_badJson
          /\ "condition" \in DOMAIN EnabledRules(f)[1]
          /\ EnabledRules(f)[1].condition = s_badJson
          /\ defs[f.id].rules = <<[force |-> Null]>>

\* C7: a compiled rule has a condition exactly when the stored condition is a
\* non-empty text other than "{}" that parses; it is then the parsed value; a
\* condition that does not parse leaves the rule compiled with its other fields.
C7_ConditionIffParses ==
    Returned =>
        \A f \in Loaded :
            Included(f) =>
                /\ Len(EmittedRules(f)) = Len(EnabledRules(f))
                /\ \A k \in 1..Len(EnabledRules(f)) :
                      LET r == EnabledRules(f)[k]
                          c == EmittedRules(f)[k]
                          parses == /\ "condition" \in DOMAIN r
                                    /\ r.condition # s_empty
                                    /\ r.condition # s_emptyObject
                                    /\ JSONparse(r.condition) # Thrown
                      IN  /\ "condition" \in DOMAIN c <=> parses
                          /\ parses => c.condition = JSONparse(r.condition)
                          /\ r.type \in {"force", "rollout"} => "force" \in DOMAIN c
                          /\ r.type = "rollout" => "coverage" \in DOMAIN c
                          /\ r.type = "experiment"
                                => {"variations", "coverage", "weights"} \subseteq DOMAIN c

\* a rollout rule whose condition does not parse is compiled with force and
\* coverage and without condition
C7_Witness ==
    /\ Returned
    /\ \E f \in Loaded :
          /\ Included(f)
          /\ Len(EnabledRules(f)) = 1
          /\ EnabledRules(f)[1].type = "rollout"
          /\ "condition" \in DOMAIN EnabledRules(f)[1]
          /\ EnabledRules(f)[1].condition = s_badJson
          /\ DOMAIN defs[f.id].rules[1] = {"force", "coverage"}

\* the stored feature of the end-to-end scenario
ShowBanner ==
    [id |-> "show-banner", valueType |-> "boolean", defaultValue |-> s_true,
     archived |-> FALSE,
     environmentSettings |->
         [production |->
             [enabled |-> TRUE,
              rules |-> <<[type |-> "rollout", enabled |-> TRUE, value |-> s_false,
                           coverage |-> Dec(15, 1), hashAttribute |-> s_id]>>]]]

\* C8: a compiled rollout rule forces the coercion of the stored value and
\* has the stored coverage brought into [0,1]; the show-banner scenario
\* compiles to {force: false, coverage: 1, hashAttribute: "id"}.
C8_RolloutCoverageClamped ==
    Returned =>
        /\ \A f \in Loaded :
              Included(f) =>
                  \A k \in 1..Len(EnabledRules(f)) :
                      LET r == EnabledRules(f)[k]
                          c == EmittedRules(f)[k]
                      IN  r.type = "rollout" =>
                              /\ c.force = Coerced(f.valueType, r.value)
                              /\ c.coverage >= 0 /\ c.coverage <= Unit
                              /\ r.coverage > Unit => c.coverage = Unit
                              /\ r.coverage < 0 => c.coverage = 0
                              /\ r.coverage >= 0 /\ r.coverage <= Unit
                                    => c.coverage = r.coverage
        /\ features = <<ShowBanner>> /\ environment = "production"
              => defs = ("show-banner" :>
                            [defaultValue |-> Bool(TRUE),
                             rules |-> <<[force |-> Bool(FALSE), coverage |-> Unit,
                                          hashAttribute |-> s_id]>>])

\* the show-banner scenario has been compiled
C8_Witness ==
    /\ Returned
    /\ features = <<ShowBanner>>
    /\ environment = "production"
    /\ defs["show-banner"].rules[1].coverage = Unit

\* C9: a compiled experiment rule carries the stored coverage unchanged,
\* also when it lies outside [0,1].
C9_ExperimentCoverageVerbatim ==
    Returned =>
        \A f \in Loaded :
            Included(f) =>
                \A k \in 1..Len(EnabledRules(f)) :
                    EnabledRules(f)[k].type = "experiment"
                        => EmittedRules(f)[k].coverage = EnabledRules(f)[k].coverage

\* an experiment stored with coverage 1.5 is emitted with coverage 1.5
C9_Witness ==
    /\ Returned
    /\ \E f \in Loaded :
          /\ Included(f)
          /\ Len(EnabledRules(f)) = 1
          /\ EnabledRules(f)[1].type = "experiment"
          /\ EnabledRules(f)[1].coverage = Dec(15, 1)
          /\ defs[f.id].rules[1].coverage = Dec(15, 1)

\* 0.001, the step of the compiled weights
Thousandth == Unit \div RoundFactor

\* C10: variations and weights of a compiled experiment are as long as the
\* stored variations and aligned with them: variations[i] is the coerced
\* i-th value, weights[i] the i-th weight clamped to [0,1] and rounded to the
\* nearest thousandth (a half rounds up), whatever the other weights are.
C10_VariationsAndWeightsAligned ==
    Returned =>
        \A f \in Loaded :
            Included(f) =>
                \A k \in 1..Len(EnabledRules(f)) :
                    LET r == EnabledRules(f)[k]
                        c == EmittedRules(f)[k]
                    IN  r.type = "experiment" =>
                            /\ Len(c.variations) = Len(r.values)
                            /\ Len(c.weights) = Len(r.values)
                            /\ \A i \in 1..Len(r.values) :
                                  LET w == r.values[i].weight
                                      clamped == IF w < 0 THEN 0
                                                 ELSE IF w > Unit THEN Unit ELSE w
                                      x == c.weights[i]
                                  IN  /\ c.variations[i]
                                            = Coerced(f.valueType, r.values[i].value)
                                      /\ x >= 0 /\ x <= Unit
                                      /\ x % Thousandth = 0
                                      /\ 2 * (x - clamped) <= Thousandth
                                      /\ 2 * (clamped - x) < Thousandth
                                      /\ w = Dec(123456, 5) => x = Unit
                                      /\ w = 0 - Dec(2, 1) => x = 0
                                      /\ w = Dec(33335, 5) => x = Dec(333, 3)

\* two stored weights 0.6667 and 1.23456 are emitted as 0.667 and 1: rounded
\* each on its own, and their sum left above 1
C10_Witness ==
    /\ Returned
    /\ \E f \in Loaded :
          /\ Included(f)
          /\ Len(EnabledRules(f)) = 1
          /\ EnabledRules(f)[1].type = "experiment"
          /\ Len(EnabledRules(f)[1].values) = 2
          /\ EnabledRules(f)[1].values[1].weight = Dec(6667, 4)
          /\ EnabledRules(f)[1].values[2].weight = Dec(123456, 5)
          /\ defs[f.id].rules[1].weights = <<Dec(667, 3), Unit>>
          /\ defs[f.id].rules[1].variations = <<Bool(TRUE), Bool(TRUE)>>

\* the Weight Normalizer as specified: clamp to [0,1], then round to the
\* nearest thousandth
Normalize(w) ==
    LET clamped == IF w < 0 THEN 0 ELSE IF w > Unit THEN Unit ELSE w
    IN  ((2 * clamped + Thousandth) \div (2 * Thousandth)) * Thousandth

\* C11: a compiled weight is the normalization of the stored weight, and
\* normalizing it again leaves it as it is; a stored weight below 0 is
\* compiled to 0 and one above 1 to 1 (1.23456 gives 1, -0.2 gives 0).
C11_NormalizeIdempotentAndClamping ==
    Returned =>
        \A f \in Loaded :
            Included(f) =>
                \A k \in 1..Len(EnabledRules(f)) :
                    EnabledRules(f)[k].type = "experiment" =>
                        \A i \in 1..Len(EnabledRules(f)[k].values) :
                            LET w == EnabledRules(f)[k].values[i].weight
                                x == EmittedRules(f)[k].weights[i]
                            IN  /\ x = Normalize(w)
                                /\ Normalize(x) = x
                                /\ w < 0 => x = 0
                                /\ w > Unit => x = Unit
                                /\ w = Dec(123456, 5) => x = Unit
                                /\ w = 0 - Dec(2, 1) => x = 0

\* the stored weights -0.2 and 1.23456 of one experiment are compiled to 0 and 1
C11_Witness ==
    /\ Returned
    /\ \E f \in Loaded :
          /\ Included(f)
          /\ Len(EnabledRules(f)) = 1
          /\ EnabledRules(f)[1].type = "experiment"
          /\ Len(EnabledRules(f)[1].values) = 2
          /\ EnabledRules(f)[1].values[1].weight = 0 - Dec(2, 1)
          /\ EnabledRules(f)[1].values[2].weight = Dec(123456, 5)
          /\ defs[f.id].rules[1].weights = <<0, Unit>>

\* the number a range bound is specified to give: its numeric parse, or 0
RangeBound(text) == IF parseFloat(text).nan THEN 0 ELSE parseFloat(text).n

\* C12: a compiled experiment has a namespace exactly when the stored rule
\* has a namespace that is enabled and has a non-empty name; it is then the
\* triple of the name and the two range bounds parsed as numbers, 0 for a
\* bound that does not parse ("n1", "0.1", "0.6" gives ["n1", 0.1, 0.6]).
C12_NamespaceIffEnabledAndNamed ==
    Returned =>
        \A f \in Loaded :
            Included(f) =>
                \A k \in 1..Len(EnabledRules(f)) :
                    LET r == EnabledRules(f)[k]
                        c == EmittedRules(f)[k]
                        stored == "namespace" \in DOMAIN r
                    IN  r.type = "experiment" =>
                            /\ "namespace" \in DOMAIN c
                                  <=> (stored /\ r.namespace.enabled
                                              /\ r.namespace.name # s_empty)
                            /\ "namespace" \in DOMAIN c
                                  => c.namespace = << r.namespace.name,
                                                      RangeBound(r.namespace.range[1]),
                                                      RangeBound(r.namespace.range[2]) >>
                            /\ stored /\ r.namespace
                                    = [enabled |-> TRUE, name |-> s_n1,
                                       range |-> <<s_0p1, s_0p6>>]
                                  => c.namespace = <<s_n1, Dec(1, 1), Dec(6, 1)>>

\* the namespace n1 with range "0.1".."0.6" has been compiled to the triple
C12_Witness ==
    /\ Returned
    /\ \E f \in Loaded :
          /\ Included(f)
          /\ Len(EnabledRules(f)) = 1
          /\ EnabledRules(f)[1].type = "experiment"
          /\ "namespace" \in DOMAIN EnabledRules(f)[1]
          /\ EnabledRules(f)[1].namespace.range = <<s_0p1, s_0p6>>
          /\ "namespace" \in DOMAIN defs[f.id].rules[1]
          /\ defs[f.id].rules[1].namespace = <<s_n1, Dec(1, 1), Dec(6, 1)>>

\* the fields a stored rule is specified to compile to, apart from condition
FieldsOf(r) ==
    IF r.type = "force" THEN {"force"}
    ELSE IF r.type = "rollout"
    THEN {"force", "coverage"}
            \cup (IF Truthy(r, "hashAttribute") THEN {"hashAttribute"} ELSE {})
    ELSE IF r.type = "experiment"
    THEN {"variations", "coverage", "weights"}
            \cup (IF Truthy(r, "trackingKey") THEN {"key"} ELSE {})
            \cup (IF Truthy(r, "hashAttribute") THEN {"hashAttribute"} ELSE {})
            \cup (IF "namespace" \in DOMAIN r /\ r.namespace.enabled
                        /\ r.namespace.name # s_empty
                   THEN {"namespace"} ELSE {})
    ELSE {}

\* C13: the fields of a compiled rule are those of its type and presence
\* checks, with condition as the only possible addition; it never carries
\* the stored id, enabled flag, type, raw value or values, and an optional
\* field is either the stored non-empty text or absent.
C13_FieldSetByType ==
    Returned =>
        \A f \in Loaded :
            Included(f) =>
                \A k \in 1..Len(EnabledRules(f)) :
                    LET r == EnabledRules(f)[k]
                        c == EmittedRules(f)[k]
                    IN  /\ TypeFields(c) = FieldsOf(r)
                        /\ DOMAIN c \cap {"id", "enabled", "type", "value", "values",
                                           "trackingKey"} = {}
                        /\ "key" \in DOMAIN c
                              => c.key = r.trackingKey /\ c.key # s_empty
                        /\ "hashAttribute" \in DOMAIN c
                              => c.hashAttribute = r.hashAttribute
                                    /\ c.hashAttribute # s_empty

\* an experiment stored with an id and an empty tracking key is compiled to
\* variations, coverage and weights alone
C13_Witness ==
    /\ Returned
    /\ \E f \in Loaded :
          /\ Included(f)
          /\ Len(EnabledRules(f)) = 1
          /\ EnabledRules(f)[1].type = "experiment"
          /\ "id" \in DOMAIN EnabledRules(f)[1]
          /\ "trackingKey" \in DOMAIN EnabledRules(f)[1]
          /\ DOMAIN defs[f.id].rules[1] = {"variations", "coverage", "weights"}

\* the collaborators the call in progress has invoked
Invoked(fn) == \E i \in 1..Len(log) : log[i].fn = fn

\* the calls of queueWebhook made by the call in progress
Webhooks == SelectSeq(log, LAMBDA entry : entry.fn = "queueWebhook")

\* an updateFeatureService call has returned
UpdateReturned == call.op = "updateFeatureService" /\ call.pc = "returned"

\* the call ended with an error thrown by a check of the service
ValidationError == call.pc = "rejected" /\ call.error.message # StorageError

\* C14: an accepted update after which the stored project differs from the
\* project before it (a change to the empty project included) has the webhook
\* collaborator notified.
C14_ProjectChangeNotifies ==
    UpdateReturned /\ OrEmpty(db[call.result.id], "project") # OrEmpty(call.feature, "project")
        => Invoked("queueWebhook")

\* the environments enabled for a feature
EnabledIn(f) ==
    IF "environmentSettings" \in DOMAIN f
    THEN {e \in DOMAIN f.environmentSettings :
             "enabled" \in DOMAIN f.environmentSettings[e]
                /\ f.environmentSettings[e].enabled}
    ELSE {}

\* C15: a webhook notification of an update carries the environments enabled
\* before or after the update and no other, and the pair of the previous and
\* the new project, a missing project being the empty text.
C15_WebhookCarriesEnvironmentsAndProjects ==
    UpdateReturned =>
        \A i \in 1..Len(Webhooks) :
            /\ Range(Webhooks[i].environments)
                  = EnabledIn(call.feature) \cup EnabledIn(db[call.result.id])
            /\ Webhooks[i].projects
                  = << OrEmpty(call.feature, "project"),
                       OrEmpty(db[call.result.id], "project") >>
            /\ Webhooks[i].organization = call.feature.organization

\* an update that moves a feature with an enabled and a disabled environment
\* from project p1 to p2 has queued its webhook
C15_Witness ==
    /\ UpdateReturned
    /\ Len(Webhooks) = 1
    /\ EnabledIn(call.feature) = {"production"}
    /\ "dev" \in DOMAIN call.feature.environmentSettings
    /\ Webhooks[1].projects = <<"p1", "p2">>
    /\ Range(Webhooks[1].environments) = {"production"}

\* C16: a call that ends in a validation error has invoked neither
\* createFeature, updateFeature nor queueWebhook, and the stored features
\* change only in a step of a call that has invoked createFeature or
\* updateFeature.
C16_RejectionBeforePersistence ==
    [][/\ ValidationError' =>
             /\ ~Invoked("createFeature")'
             /\ ~Invoked("updateFeature")'
             /\ ~Invoked("queueWebhook")'
             /\ db' = db
       /\ db' # db => Invoked("createFeature") \/ Invoked("updateFeature")]_vars

\* an update is rejected because its project was not found, after the lookup
\* and with a feature in storage
C16_Witness ==
    /\ ValidationError
    /\ call.op = "updateFeatureService"
    /\ call.error.message = "Project not found"
    /\ Invoked("findProjectById")
    /\ db # <<>>

\* the fields an update is specified to be able to set
AllowList == {"tags", "description", "project", "owner"}

\* the fields no update may change
Immutable == {"id", "valueType", "defaultValue", "archived", "organization",
              "environmentSettings"}

\* C17: an update is accepted only if all its keys are among tags,
\* description, project and owner, and is otherwise rejected with one error
\* that lists every offending key; no step changes the id, valueType,
\* defaultValue, archived flag, organization or environmentSettings of a
\* stored feature, and the returned feature differs from the input feature
\* only in the fields of the update.
C17_UpdateAllowList ==
    [][/\ call'.op = "updateFeatureService" =>
             /\ DOMAIN call'.arg \subseteq AllowList
                   \/ /\ call'.pc = "rejected"
                      /\ call'.error.message = "Invalid update fields for feature"
                      /\ Range(call'.error.keys) = DOMAIN call'.arg \ AllowList
                      /\ Len(call'.error.keys) = Cardinality(DOMAIN call'.arg \ AllowList)
             /\ call'.pc = "returned" =>
                   /\ DOMAIN call'.result = DOMAIN call'.feature \cup DOMAIN call'.arg
                   /\ \A f \in DOMAIN call'.result :
                         call'.result[f] = IF f \in DOMAIN call'.arg
                                           THEN call'.arg[f] ELSE call'.feature[f]
       /\ \A id \in DOMAIN db :
             id \in DOMAIN db' /\ Only(db'[id], Immutable) = Only(db[id], Immutable)]_vars

\* a second accepted update of the same feature has returned: its owner was
\* set by the first and its project by the second
C17_Witness ==
    /\ UpdateReturned
    /\ call.n = 2
    /\ call.arg = [project |-> "p2"]
    /\ call.feature.owner = "bob"
    /\ db[call.result.id].owner = "bob"
    /\ db[call.result.id].project = "p2"
    /\ "environmentSettings" \in DOMAIN db[call.result.id]

\* the place in the log of the first call of fn, 0 when there is none
Position(fn) ==
    IF Invoked(fn)
    THEN CHOOSE i \in 1..Len(log) : log[i].fn = fn /\ \A j \in 1..(i - 1) : log[j].fn # fn
    ELSE 0

\* the restriction the organization settings of a request put on an environment
RestrictionIn(req, env) ==
    IF "environments" \in DOMAIN req
    THEN UNION { Range(d.projects) :
                    d \in {e \in Range(req.environments) :
                              e.id = env /\ "projects" \in DOMAIN e} }
    ELSE {}

C19_MissingKeyRejectedFirst ==
    call.op = "getSdkPayload" =>
        /\ ~("key" \in DOMAIN call.arg /\ call.arg.key # "") =>
              /\ call.pc = "rejected"
              /\ call.error.message = "Missing API key in request"
              /\ log = <<>>
        /\ call.pc = "rejected" => "result" \notin DOMAIN call
        /\ "result" \in DOMAIN call =>
              /\ call.pc = "returned"
              /\ call.result.status = 200
              /\ Invoked("getFeatureDefinitions")
              /\ "features" \in DOMAIN call.result
              /\ \A id \in DOMAIN call.result.features :
                    "defaultValue" \in DOMAIN call.result.features[id]

\* a request with an empty key has been rejected, with features in storage
C19_Witness ==
    /\ call.op = "getSdkPayload"
    /\ call.pc = "rejected"
    /\ "key" \in DOMAIN call.arg
    /\ call.arg.key = ""
    /\ "environments" \in DOMAIN call.arg
    /\ store # <<>>
    /\ log = <<>>

\* do the drafts a and b agree on a field: both lack it, or both have it
\* with the same value
Agree(a, b, field) ==
    LET has(d) == d # None /\ field \in DOMAIN d
    IN  /\ has(a) <=> has(b)
        /\ has(a) => a[field] = b[field]

\* C20: verifyDraftsAreEqual throws exactly when the two drafts disagree on
\* defaultValue or on rules; drafts that agree on both are accepted whatever
\* their other fields, and so are two absent drafts.
C20_RejectsIffDraftsDiffer ==
    call.op = "verifyDraftsAreEqual" =>
        /\ call.pc = "rejected"
              <=> ~(Agree(call.actual, call.expected, "defaultValue")
                       /\ Agree(call.actual, call.expected, "rules"))
        /\ call.pc = "rejected" =>
              call.error.message
                  = "New changes have been made to this feature. Please review and try again."
        /\ call.actual = None /\ call.expected = None => call.pc = "returned"

\* two drafts with the same default value and rules and different creation
\* dates have been accepted
C20_Witness ==
    /\ call.op = "verifyDraftsAreEqual"
    /\ call.pc = "returned"
    /\ call.actual # None
    /\ call.expected # None
    /\ call.actual # call.expected
    /\ "rules" \in DOMAIN call.actual
    /\ "defaultValue" \in DOMAIN call.actual
    /\ "dateCreated" \in DOMAIN call.expected
    /\ call.actual.dateCreated # call.expected.dateCreated

----------------------------------------------------------------------------
\* the compilation of one snapshot for one environment: a definition for each
\* feature of the snapshot that is not skipped
CompilationOf(snapshot, env) ==
    LET kept == {i \in 1..Len(snapshot) : ~Skipped(snapshot[i], env)}
        last(id) == CHOOSE i \in kept :
                        /\ snapshot[i].id = id
                        /\ \A j \in kept : snapshot[j].id = id => j <= i
    IN  [id \in {snapshot[i].id : i \in kept} |->
            FeatureDefinition(snapshot[last(id)],
                              SettingsOf(snapshot[last(id)], env))]

\* C21: each invocation of getFeatureDefinitions loads the collection once,
\* as storage holds it at that step, and never changes what it loaded; what it
\* returns is the compilation of that one snapshot, whatever is written to
\* storage and whatever the other invocation does in between; and no step of
\* an invocation writes to storage.
C21_ResultOfOneSnapshot ==
    [][/\ features' # features =>
             pc = "call" /\ features' = store /\ store' = store
       /\ call'.features # call.features =>
             call.pc = "call" /\ call'.features = store /\ store' = store
       /\ (pc' # pc \/ idx' # idx \/ defs' # defs \/ call' # call) => store' = store
       /\ pc' = "returned" => defs' = CompilationOf(features', environment')
       /\ call'.pc = "returned" =>
             call'.defs = CompilationOf(call'.features, EnvironmentOf(call'))]_vars

\* both invocations have returned, each from a snapshot of its own, and the
\* first one's snapshot is no longer what storage holds nor compiles to the
\* same mapping
C21_Witness ==
    /\ call.op = "getFeatureDefinitions"
    /\ Returned
    /\ call.pc = "returned"
    /\ features # store
    /\ call.features = store
    /\ defs # <<>>
    /\ defs # CompilationOf(store, environment)
    /\ call.defs # <<>>
    /\ call.defs # defs

----------------------------------------------------------------------------
\* the places of the rules of environment settings: environment and position
Slots(settings) ==
    UNION { {<<e, k>> : k \in 1..Len(RulesOf(settings[e]))} : e \in DOMAIN settings }

RuleAt(settings, slot) == settings[slot[1]].rules[slot[2]]

\* the places whose rule has no id, or an empty one
Unidentified(settings) == {slot \in Slots(settings) : ~Truthy(RuleAt(settings, slot), "id")}

HasPrefix(text, prefix) ==
    Len(text) >= Len(prefix) /\ SubSeq(text, 1, Len(prefix)) = prefix

\* a call of createFeatureService that has passed addIdsToRules with settings
Identified ==
    /\ call.op = "createFeatureService"
    /\ "resultFeature" \in DOMAIN call
    /\ "environmentSettings" \in DOMAIN call.arg

\* C22: addIdsToRules leaves the environments and their rule sequences in
\* place and every rule with a non-empty id: the id it had, or where it had
\* none a generated id that starts with "fr_" and differs from the other
\* generated ids of the feature; applied again to its own result it changes
\* nothing and generates no id.
C22_IdsAssignedOnceAndKept ==
    Identified =>
        LET before == call.arg.environmentSettings
            after == call.resultFeature.environmentSettings
        IN  /\ DOMAIN after = DOMAIN before
            /\ Slots(after) = Slots(before)
            /\ \A slot \in Slots(before) :
                  /\ Truthy(RuleAt(after, slot), "id")
                  /\ slot \notin Unidentified(before) =>
                        RuleAt(after, slot).id = RuleAt(before, slot).id
                  /\ slot \in Unidentified(before) =>
                        /\ HasPrefix(RuleAt(after, slot).id, <<"f", "r", "_">>)
                        /\ \A other \in Unidentified(before) \ {slot} :
                              RuleAt(after, other).id # RuleAt(after, slot).id
            /\ addIdsToRulesFrom(after, call.resultFeature.id, uniq) = after
            /\ GeneratedIds(after) = 0

\* ids were generated in two environments of a feature that also has a rule
\* with an id of its own
C22_Witness ==
    /\ Identified
    /\ \E s1, s2 \in Unidentified(call.arg.environmentSettings) :
          /\ s1[1] # s2[1]
          /\ "id" \in DOMAIN RuleAt(call.arg.environmentSettings, s2)
    /\ \E s1, s2 \in Unidentified(call.arg.environmentSettings) :
          s1[1] = s2[1] /\ s1[2] # s2[2]
    /\ \E slot \in Slots(call.arg.environmentSettings) :
          slot \notin Unidentified(call.arg.environmentSettings)

----------------------------------------------------------------------------
\* the characters of a stored key: [a-z0-9_.:|-]
StoredKeyChars == Range(LowerCase) \cup Digits \cup {"_", ".", ":", "|", "-"}

\* lower is key with each capital letter replaced by its small letter
IsLowerCaseOf(lower, key) ==
    /\ Len(lower) = Len(key)
    /\ \A i \in 1..Len(key) :
          \/ key[i] \notin Range(UpperCase) /\ lower[i] = key[i]
          \/ \E k \in 1..Len(UpperCase) : key[i] = UpperCase[k] /\ lower[i] = LowerCase[k]

\* the request has no key, an empty one, or one with a character outside
\* [a-zA-Z0-9_.:|-]
BadKey(feature) ==
    \/ "id" \notin DOMAIN feature
    \/ feature.id = <<>>
    \/ \E i \in 1..Len(feature.id) :
          feature.id[i] \notin Range(LowerCase) \cup Range(UpperCase) \cup Digits
                                  \cup {"_", ".", ":", "|", "-"}

\* C23: the feature a call of createFeatureService hands to storage and
\* returns has as id the lowercase form of the supplied key, made of characters
\* of [a-z0-9_.:|-] only, and is stored under that id; a call with a key that
\* is missing, empty or has any other character is rejected without a call of
\* createFeature and with storage unchanged.
C23_KeyLowercasedAndRestricted ==
    [][call'.op = "createFeatureService" =>
          /\ "resultFeature" \in DOMAIN call' =>
                /\ IsLowerCaseOf(call'.resultFeature.id, call'.arg.id)
                /\ Range(call'.resultFeature.id) \subseteq StoredKeyChars
                /\ call'.resultFeature.id # <<>>
          /\ call'.pc = "returned" =>
                /\ IsLowerCaseOf(call'.result.id, call'.arg.id)
                /\ Range(call'.result.id) \subseteq StoredKeyChars
                /\ call'.result.id \in DOMAIN db'
                /\ db'[call'.result.id].id = call'.result.id
          /\ BadKey(call'.arg) =>
                /\ call'.pc = "rejected"
                /\ ~Invoked("createFeature")'
                /\ db' = db]_vars

\* a feature was created from a key with capital letters and each of the
\* other characters allowed
C23_Witness ==
    /\ call.op = "createFeatureService"
    /\ call.pc = "returned"
    /\ {"X", "_", ".", ":", "|", "-", "1", "y"} \subseteq Range(call.arg.id)
    /\ call.result.id # call.arg.id
    /\ call.result.id \in DOMAIN db

----------------------------------------------------------------------------
\* the default value supplied in the request that created the feature id:
\* each request of DefaultRequests has a key of its own
Supplied(id) ==
    (CHOOSE r \in DefaultRequests : IsLowerCaseOf(id, r.id)).defaultValue

\* C24: a boolean feature created by createFeatureService with the default
\* value s is stored with the default "true" when s is exactly "true" and with
\* "false" otherwise, and the definition compiled from it has the default
\* value true exactly when s was "true".
C24_CreatedBooleanDefaultAgrees ==
    /\ \A id \in DOMAIN db :
          db[id].valueType = "boolean" =>
              db[id].defaultValue = IF Supplied(id) = s_true THEN s_true ELSE s_false
    /\ Returned =>
          /\ DOMAIN defs = {features[i].id : i \in 1..Len(features)}
          /\ \A id \in DOMAIN defs :
                defs[id].defaultValue = Bool(Supplied(id) = s_true)

\* two features were created, one with "true" and one with another text that
\* is not "false", and both were compiled
C24_Witness ==
    /\ Returned
    /\ \E id1, id2 \in DOMAIN defs :
          /\ Supplied(id1) = s_true
          /\ defs[id1].defaultValue = Bool(TRUE)
          /\ Supplied(id2) \notin {s_true, s_false}
          /\ defs[id2].defaultValue = Bool(FALSE)

----------------------------------------------------------------------------
\* the persistence call of the service in progress
PersistenceCall == IF call.op = "createFeatureService" THEN "createFeature" ELSE "updateFeature"

\* storage holds what the call in progress asked it to store
Persisted ==
    IF call.op = "createFeatureService"
    THEN /\ call.resultFeature.id \in DOMAIN db
         /\ db[call.resultFeature.id] = call.resultFeature
    ELSE /\ call.featureId \in DOMAIN db
         /\ \A f \in DOMAIN call.changes : db[call.featureId][f] = call.changes[f]

\* C25: a step that calls queueWebhook follows the successful end of the
\* persistence call of the same service call, with what was to be stored in
\* storage, and is the step at which the service returns the feature, the
\* notification still pending; a call whose persistence fails is rejected
\* with no call of queueWebhook; and when the notification later settles,
\* queued or failed, the returned call and storage stay as they are.
C25_WebhookAfterPersistenceUnawaited ==
    [][/\ (\E i \in 1..Len(log') : log'[i].fn = "queueWebhook")
             /\ ~(\E i \in 1..Len(log) : log[i].fn = "queueWebhook" /\ call'.n = call.n) =>
             /\ call.pc \in {"created", "updated"}
             /\ call'.n = call.n
             /\ \E i, j \in 1..Len(log') :
                   /\ i < j
                   /\ log'[i].fn = PersistenceCall
                   /\ log'[j].fn = "queueWebhook"
             /\ Persisted
             /\ db' = db
             /\ call'.pc = "returned"
             /\ \A i \in 1..Len(log') :
                   log'[i].fn = "queueWebhook" => "settled" \notin DOMAIN log'[i]
       /\ (call'.pc = "rejected" /\ call'.error.message = StorageError) =>
             \A i \in 1..Len(log') : log'[i].fn # "queueWebhook"
       /\ (\E i \in 1..Len(log') : "settled" \in DOMAIN log'[i]) =>
             /\ call'.pc = "returned"
             /\ "result" \in DOMAIN call'
             /\ call'.n = call.n => call' = call /\ db' = db]_vars

\* an update that moved the feature to another project has returned the new
\* feature and its notification has failed since
C25_Witness ==
    /\ UpdateReturned
    /\ call.result.project = "p2"
    /\ call.feature.project = "p1"
    /\ db[call.result.id].project = "p2"
    /\ \E i \in 1..Len(log) :
          /\ log[i].fn = "queueWebhook"
          /\ "settled" \in DOMAIN log[i]
          /\ log[i].settled = "failed"

====
